---- MODULE Spec2Model ----
(***************************************************************************)
(* Model of the log-parsing core of chromedriver-log-viewer: the format    *)
(* detector (LogParserFactory.createParser), the four dialect parsers      *)
(* (ChromeDriverLog, PuppeteerLog, WPTLog, ProtocolMonitorLog) and the     *)
(* shared correlation + lane allocation pass (GenericLog.postProcess).     *)
(*                                                                         *)
(* A text is a sequence of lines; a line is a record of the lexical        *)
(* features the parsers' regular expressions and JSON.parse look at.       *)
(***************************************************************************)
EXTENDS Integers, Sequences, FiniteSets, TLC

\* ---------------------------------------------------------------- bounds
\* Longest text, in lines, given to the parsers.
MaxLines == 4
\* Longest text, in lines, given to the parser when only lanes are studied.
MaxLaneLines == 6
\* Longest text of the one file viewed when the pinned rows are studied.
MaxStickyLines == 5
\* Longest text of each of the two files dropped together.
MaxDeferredLines == 2

\* ------------------------------------------------------ JavaScript values
\* A value is [t, n]: its typeof-like tag and a number (the numeric value,
\* 1/0 for true/false, 0 for the empty string, a positive index for a
\* non-empty, non-numeric string).
Undef == [t |-> "undefined", n |-> 0]
Null == [t |-> "null", n |-> 0]
Num(k) == [t |-> "number", n |-> k]
Str(k) == [t |-> "string", n |-> k]
Bool(b) == [t |-> "boolean", n |-> IF b THEN 1 ELSE 0]
Obj == [t |-> "object", n |-> 0]

\* ToBoolean: `if (v)`, `!!v`, `a && b`, `a || b`.
Truthy(v) ==
  CASE v.t = "undefined" -> FALSE
    [] v.t = "null" -> FALSE
    [] v.t = "boolean" -> v.n = 1
    [] v.t = "number" -> v.n # 0
    [] v.t = "string" -> v.n # 0
    [] OTHER -> TRUE

\* `v > 0` with JavaScript's numeric coercion (strings here are empty or
\* non-numeric, so they coerce to 0 or NaN).
GreaterThanZero(v) ==
  CASE v.t = "number" -> v.n > 0
    [] v.t = "boolean" -> v.n = 1
    [] OTHER -> FALSE

\* `a && b` and `a || b` as values.
JsAnd(a, b) == IF Truthy(a) THEN b ELSE a
JsOr(a, b) == IF Truthy(a) THEN a ELSE b

\* ------------------------------------------------------------ JSON texts
\* The part of an object graph the metadata walk looks at: a node is an object
\* or array with the values of its own targetId, sessionId and target fields
\* (Undef = the field is absent) and, in key order, its object- or
\* array-valued members.
Node(targetId, sessionId, kids) ==
  [targetId |-> targetId, sessionId |-> sessionId, target |-> Undef, kids |-> kids]
NoTree == Node(Undef, Undef, <<>>)

\* A JSON text is "bad" (JSON.parse throws) or parses to a value: a scalar,
\* null, or an object whose fields method, id, result, error are given
\* (Undef = the field is absent) and whose identifier fields are in tree.
NoFields ==
  [method |-> Undef, id |-> Undef, params |-> Undef, result |-> Undef, error |-> Undef]
BadJson == [ok |-> FALSE, v |-> Undef, f |-> NoFields, tree |-> NoTree]
JsonScalar(v) == [ok |-> TRUE, v |-> v, f |-> NoFields, tree |-> NoTree]
JsonObject(m, i, r, e) ==
  [ok |-> TRUE, v |-> Obj,
   f |-> [method |-> m, id |-> i, params |-> Undef, result |-> r, error |-> e],
   tree |-> NoTree]
JsonTree(tree) == [ok |-> TRUE, v |-> Obj, f |-> NoFields, tree |-> tree]

\* Property read `payload.x`: throws on null/undefined, undefined on other
\* scalars, the field on objects.
ReadThrows(j) == j.v.t \in {"null", "undefined"}

\* ------------------------------------------------------------------ lines
\* k is the framing of the line, m what its text says, id the number of an
\* "(id=N)" marker, j the JSON text it embeds.
\*   "ts"     [dd-mm-yyyy hh:mm:ss.uuuuuu][LEVEL]: message     (ChromeDriver)
\*   "send"   ...puppeteer:protocol:SEND > [ ...       (transcript block start)
\*   "recv"   ...puppeteer:protocol:RECV < [ ...
\*   "sendc"  ...puppeteer:protocol:SEND >   ...       (prefixed continuation)
\*   "recvc"  ...puppeteer:protocol:RECV <   ...
\*   "wpt"    Protocol message: <json>
\*   "aopen"  [          "arec"  <json>[,]          "aclose"  ]
\*   "anum"   [<digit>...          (an opening bracket followed by a digit)
\*   "text"   any other text     "blank"  white space only
\* tag is the 32-hex tag "[...]" of a ChromeDriver message and sid the value
\* of its "(session_id=...)" marker.
TaggedLine(k, m, id, j, tag, sid) ==
  [k |-> k, m |-> m, id |-> id, j |-> j, tag |-> tag, sid |-> sid]
Line(k, m, id, j) == TaggedLine(k, m, id, j, Undef, Undef)
TextLine == Line("text", "text", Undef, BadJson)
BlankLine == Line("blank", "", Undef, BadJson)

Dialects == {"ChromeDriver", "Puppeteer", "WPT", "ProtocolMonitor"}

\* ---------------------------------------------------------------- entries
NoLane == -1
NoLaneConfig ==
  [set |-> FALSE, activeLanes |-> <<>>, laneDetails |-> <<>>,
   laneEntryIndices |-> <<>>, startLane |-> NoLane, endLane |-> NoLane]

\* A LogEntry (src/src/types/log.ts); relatedIds, targetIds, sessionIds, tags
\* <<>> stand for an absent or empty list, payload.ok = FALSE for an absent
\* payload. raw is the raw text as the sequence of its lines (the parsers join
\* them with "\n"); each parser sets it.
NewEntry(id, lineNumber, isCommand, isResponse, commandId, method, logType, payload) ==
  [id |-> id, lineNumber |-> lineNumber, isCommand |-> isCommand,
   isResponse |-> isResponse, commandId |-> commandId, method |-> method,
   logType |-> logType, payload |-> payload, relatedIds |-> <<>>,
   laneConfig |-> NoLaneConfig, targetIds |-> <<>>, sessionIds |-> <<>>, tags |-> <<>>,
   raw |-> <<>>]

\* ----------------------------------------------------- metadata extractor
\* Array.from(new Set(list)): first occurrences, in order.
RECURSIVE DedupInto(_, _)
DedupInto(acc, list) ==
  IF list = <<>> THEN acc
  ELSE DedupInto(IF \E n \in 1..Len(acc) : acc[n] = Head(list)
                   THEN acc ELSE Append(acc, Head(list)),
                 Tail(list))
Dedup(list) == DedupInto(<<>>, list)

NoMetadata == [targetIds |-> <<>>, sessionIds |-> <<>>]

\* find(obj) of extractMetadata (WPTLog, PuppeteerLog): every truthy value is
\* collected, then every member is visited.
RECURSIVE find(_, _)
RECURSIVE findMembers(_, _)
find(obj, acc) ==
  LET a1 == IF Truthy(obj.targetId)
              THEN [acc EXCEPT !.targetIds = Append(@, obj.targetId)] ELSE acc
      a2 == IF Truthy(obj.sessionId)
              THEN [a1 EXCEPT !.sessionIds = Append(@, obj.sessionId)] ELSE a1
  IN findMembers(obj.kids, a2)
findMembers(kids, acc) ==
  IF kids = <<>> THEN acc ELSE findMembers(Tail(kids), find(Head(kids), acc))

\* extractMetadata(entry, payload)
extractMetadata(entry, payload) ==
  LET found == find(payload.tree, NoMetadata)
  IN [entry EXCEPT !.targetIds = Dedup(found.targetIds),
                   !.sessionIds = Dedup(found.sessionIds)]

\* ChromeDriverLog.findMetadataInPayload: only non-empty strings are collected.
RECURSIVE findMetadataInPayload(_, _)
RECURSIVE findMetadataInMembers(_, _)
findMetadataInPayload(obj, acc) ==
  LET a1 == IF Truthy(obj.targetId) /\ obj.targetId.t = "string"
              THEN [acc EXCEPT !.targetIds = Append(@, obj.targetId)] ELSE acc
      a2 == IF Truthy(obj.sessionId) /\ obj.sessionId.t = "string"
              THEN [a1 EXCEPT !.sessionIds = Append(@, obj.sessionId)] ELSE a1
  IN findMetadataInMembers(obj.kids, a2)
findMetadataInMembers(kids, acc) ==
  IF kids = <<>> THEN acc
  ELSE findMetadataInMembers(Tail(kids), findMetadataInPayload(Head(kids), acc))

\* ------------------------------------------------------- format detector
HeuristicLines == 50

\* Lexical features of a line that createParser looks at.
StartsWithBracket(l) == l.k \in {"ts", "aopen", "anum"}
BracketThenDigit(l) == l.k \in {"ts", "anum"}
ContainsMethodToken(l) == l.j.ok /\ l.j.f.method # Undef
ContainsSend(l) == l.k \in {"send", "sendc"}
ContainsRecv(l) == l.k \in {"recv", "recvc"}
ContainsProtocolMessage(l) == l.k = "wpt"
ContainsChromeDriverMarker(l) ==
  l.k = "ts" /\ l.m \in {"Start", "DTCommand", "DTResponse", "DTEvent"}
IsBlank(l) == l.k = "blank"
NotBlank(l) == ~IsBlank(l)

\* Index of the first line content.trim() keeps, 0 if there is none.
FirstNonBlank(content) ==
  LET kept == {n \in 1..Len(content) : NotBlank(content[n])}
  IN IF kept = {} THEN 0 ELSE CHOOSE n \in kept : \A q \in kept : n <= q

\* content.split('\n').slice(0, 50)
FirstLines(content) ==
  SubSeq(content, 1, IF Len(content) < HeuristicLines THEN Len(content) ELSE HeuristicLines)

\* createParser without the test for a leading "[digit".
createParserNoTimestampTest(content) ==
  LET first == FirstNonBlank(content)
      startsWithBracket == first # 0 /\ StartsWithBracket(content[first])
      firstLines == FirstLines(content)
  IN IF startsWithBracket
          /\ \E n \in 1..Len(content) : ContainsMethodToken(content[n])
       THEN "ProtocolMonitor"
     ELSE IF \/ \E n \in 1..Len(firstLines) : ContainsSend(firstLines[n])
             \/ \E n \in 1..Len(firstLines) : ContainsRecv(firstLines[n])
       THEN "Puppeteer"
     ELSE IF \E n \in 1..Len(firstLines) : ContainsProtocolMessage(firstLines[n])
       THEN "WPT"
     ELSE "ChromeDriver"

\* LogParserFactory.createParser
createParser(content) ==
  LET first == FirstNonBlank(content)
      startsWithBracket == first # 0 /\ StartsWithBracket(content[first])
      isTimestamp == first # 0 /\ BracketThenDigit(content[first])
      firstLines == FirstLines(content)
  IN IF startsWithBracket /\ ~isTimestamp
          /\ \E n \in 1..Len(content) : ContainsMethodToken(content[n])
       THEN "ProtocolMonitor"
     ELSE IF \/ \E n \in 1..Len(firstLines) : ContainsSend(firstLines[n])
             \/ \E n \in 1..Len(firstLines) : ContainsRecv(firstLines[n])
       THEN "Puppeteer"
     ELSE IF \E n \in 1..Len(firstLines) : ContainsProtocolMessage(firstLines[n])
       THEN "WPT"
     ELSE IF \E n \in 1..Len(firstLines) : ContainsChromeDriverMarker(firstLines[n])
       THEN "ChromeDriver"
     ELSE "ChromeDriver"

\* ------------------------------------------------------ ChromeDriverLog
\* line.match(timestampRegex)
MatchesTimestamp(l) == l.k = "ts"

NoCurrent == [lineNumber |-> 0, rawLines |-> <<>>]
IsCurrent(c) == c.rawLines # <<>>

\* ChromeDriverLog.finalizeEntry; the message is that of the first raw line.
ChromeDriverFinalize(cur, id) ==
  LET l == cur.rawLines[1]
      devTools == l.m \in {"DTCommand", "DTResponse", "DTEvent"}
      webDriver == l.m \in {"WDCommand", "WDResponse"}
      isCommand == l.m \in {"DTCommand", "WDCommand"}
      isResponse == l.m \in {"DTResponse", "WDResponse"}
      logType == IF devTools THEN "DevTools" ELSE IF webDriver THEN "WebDriver" ELSE "Other"
      method == IF devTools \/ webDriver THEN Str(1) ELSE Undef
      fromMessage == [targetIds |-> IF l.tag # Undef THEN <<l.tag>> ELSE <<>>,
                      sessionIds |-> IF l.sid # Undef THEN <<l.sid>> ELSE <<>>]
      found == IF l.j.ok /\ Truthy(l.j.v)
                 THEN findMetadataInPayload(l.j.tree, fromMessage)
                 ELSE fromMessage
  IN [NewEntry(id, cur.lineNumber, isCommand, isResponse, l.id, method, logType, l.j)
        EXCEPT !.tags = Dedup(found.targetIds \o found.sessionIds),
               !.targetIds = Dedup(found.targetIds),
               !.sessionIds = Dedup(found.sessionIds),
               !.raw = cur.rawLines]

\* ---------------------------------------------------------- PuppeteerLog
SendMatch(l) == l.k = "send"
RecvMatch(l) == l.k = "recv"

\* The text of a line after the prefix is stripped, as the tokens the bracket
\* search of finalizeEntry distinguishes: "[", "]", a quoted JSON text "J",
\* other text "x".
Tok(c, j) == [c |-> c, j |-> j]
LineTokens(l) ==
  CASE l.k \in {"send", "recv"} /\ l.m = "full" ->
         <<Tok("[", BadJson), Tok("J", l.j), Tok("]", BadJson)>>
    [] l.k \in {"send", "recv"} /\ l.m # "full" -> <<Tok("[", BadJson)>>
    [] l.k \in {"sendc", "recvc"} /\ l.m = "json" -> <<Tok("J", l.j)>>
    [] l.k \in {"sendc", "recvc"} /\ l.m # "json" -> <<Tok("]", BadJson)>>
    [] l.k = "ts" -> <<Tok("[", BadJson), Tok("x", BadJson), Tok("]", BadJson)>>
    [] l.k \in {"aopen", "anum"} -> <<Tok("[", BadJson)>>
    [] l.k = "aclose" -> <<Tok("]", BadJson)>>
    [] l.k = "blank" -> <<>>
    [] OTHER -> <<Tok("x", BadJson)>>

RECURSIVE FullText(_)
\* cleanLines.join('\n')
FullText(rawLines) ==
  IF rawLines = <<>> THEN <<>>
  ELSE LineTokens(Head(rawLines)) \o FullText(Tail(rawLines))

\* fullText.indexOf('[') and fullText.lastIndexOf(']'), 0 if absent.
IndexOfOpen(text) ==
  LET found == {n \in 1..Len(text) : text[n].c = "["}
  IN IF found = {} THEN 0 ELSE CHOOSE n \in found : \A q \in found : n <= q
LastIndexOfClose(text) ==
  LET found == {n \in 1..Len(text) : text[n].c = "]"}
  IN IF found = {} THEN 0 ELSE CHOOSE n \in found : \A q \in found : n >= q

\* The payload finalizeEntry extracts: BadJson stands for null.
PuppeteerPayload(rawLines) ==
  LET fullText == FullText(rawLines)
      startBracket == IndexOfOpen(fullText)
      endBracket == LastIndexOfClose(fullText)
      inner == SubSeq(fullText, startBracket + 1, endBracket - 1)
  IN IF startBracket # 0 /\ endBracket # 0 /\ endBracket > startBracket
          /\ Len(inner) = 1 /\ inner[1].c = "J"
       THEN inner[1].j
       ELSE BadJson

\* PuppeteerLog.finalizeEntry: the entries after the call (nothing is pushed
\* when the payload is null or another falsy value).
PuppeteerFinalize(entries, cur, id) ==
  LET payload == PuppeteerPayload(cur.rawLines)
      isSend == SendMatch(cur.rawLines[1])
      method == IF Truthy(payload.f.method) THEN payload.f.method ELSE Undef
      commandId == IF Truthy(payload.f.id) THEN payload.f.id ELSE Undef
      isCommand == isSend
      isResponse == ~isCommand /\ (payload.f.result # Undef \/ payload.f.error # Undef)
  IN IF payload.ok /\ Truthy(payload.v)
       THEN Append(entries,
                   extractMetadata([NewEntry(id, cur.lineNumber, isCommand, isResponse,
                                             commandId, method, "DevTools", payload)
                                      EXCEPT !.raw = cur.rawLines],
                                   payload))
       ELSE entries

\* ---------------------------------------------------------------- WPTLog
\* line.startsWith('Protocol message: ')
HasProtocolPrefix(l) == l.k = "wpt"

\* The body of the try block: TRUE when JSON.parse or a property read of the
\* payload throws (the catch then drops the line).
WPTThrows(l) == ~l.j.ok \/ ReadThrows(l.j)

WPTEntry(l, id, lineNumber) ==
  LET payload == l.j
      isCommand == JsAnd(payload.f.method, payload.f.id)
      isResponse == JsAnd(payload.f.id, JsOr(payload.f.result, payload.f.error))
  IN extractMetadata([NewEntry(id, lineNumber, Truthy(isCommand), Truthy(isResponse),
                               payload.f.id, payload.f.method, "DevTools", payload)
                        EXCEPT !.raw = <<l>>],
                     payload)

\* ---------------------------------------------------- ProtocolMonitorLog
IsRecordLine(l) == l.k = "arec"

\* The text without its white-space-only lines.
RECURSIVE Strip(_)
Strip(lines) ==
  IF lines = <<>> THEN <<>>
  ELSE IF IsBlank(Head(lines)) THEN Strip(Tail(lines))
  ELSE <<Head(lines)>> \o Strip(Tail(lines))

\* JSON.parse(content): "throw", "value" (valid JSON that is no array) or
\* "array" with the parsed elements.
JsonParseContent(content) ==
  LET s == Strip(content)
      n == Len(s)
  IN IF n >= 2 /\ s[1].k = "aopen" /\ s[n].k = "aclose"
          /\ \A q \in 2..(n - 1) : IsRecordLine(s[q]) /\ s[q].j.ok
       THEN [kind |-> "array", elems |-> [q \in 1..(n - 2) |-> s[q + 1].j]]
     ELSE IF n = 1 /\ IsRecordLine(s[1]) /\ s[1].j.ok
       THEN [kind |-> "value", elems |-> <<>>]
     ELSE [kind |-> "throw", elems |-> <<>>]

\* ProtocolMonitorEntries splitting only records whose id is truthy.
ProtocolMonitorEntriesTruthyId(raw, entryCounter) ==
  IF Truthy(raw.f.id)
    THEN <<NewEntry(entryCounter, 0, TRUE, FALSE, raw.f.id, raw.f.method,
                    "DevTools", BadJson),
           NewEntry(entryCounter + 1, 0, FALSE, TRUE, raw.f.id, raw.f.method,
                    "DevTools", BadJson)>>
    ELSE <<NewEntry(entryCounter, 0, FALSE, FALSE, Undef, raw.f.method,
                    "DevTools", BadJson)>>

\* The entries one record adds (ProtocolMonitorLog.parse, loop body).
ProtocolMonitorEntries(raw, entryCounter) ==
  LET isCommand == raw.f.id # Undef
      isError == Truthy(raw.f.error)
      respPayload == IF isError THEN raw.f.error ELSE raw.f.result
      eventPayload == JsOr(raw.f.params, raw.f.result)
      AsPayload(v) == IF v = Undef THEN BadJson ELSE JsonScalar(v)
      \* JSON.stringify(v): the text stands for the value it was made from;
      \* undefined gives no text.
      Stringify(v) == IF v = Undef THEN <<>> ELSE <<JsonScalar(v)>>
      Common(entry, rawText) ==
        [entry EXCEPT
           !.sessionIds = IF Truthy(raw.tree.sessionId) THEN <<raw.tree.sessionId>> ELSE <<>>,
           !.targetIds = IF Truthy(raw.tree.target) THEN <<raw.tree.target>> ELSE <<>>,
           !.raw = rawText]
  IN IF isCommand
       THEN <<Common(NewEntry(entryCounter, 0, TRUE, FALSE, raw.f.id, raw.f.method,
                              "DevTools", AsPayload(raw.f.params)), <<raw>>),
              Common(NewEntry(entryCounter + 1, 0, FALSE, TRUE, raw.f.id, raw.f.method,
                              "DevTools", AsPayload(respPayload)),
                     Stringify(JsOr(raw.f.result, raw.f.error)))>>
       ELSE <<Common(NewEntry(entryCounter, 0, FALSE, FALSE, Undef, raw.f.method,
                              "DevTools", AsPayload(eventPayload)), <<raw>>)>>

\* ------------------------------------------------- GenericLog.postProcess
\* Indices are JavaScript indices (from 0); entries[i + 1] is entries[i].
EntryAt(entries, idx) == entries[idx + 1]

\* A set that keeps the value of a key that is already mapped.
MapSetKeepFirst(map, key, val) ==
  [k \in DOMAIN map \cup {key} |-> IF k \in DOMAIN map THEN map[k] ELSE val]

\* pendingCommands.set(key, idx)
MapSet(map, key, val) ==
  [k \in DOMAIN map \cup {key} |-> IF k = key THEN val ELSE map[k]]
\* pendingCommands.delete(key)
MapDelete(map, key) == [k \in DOMAIN map \ {key} |-> map[k]]
EmptyMap == [k \in {} |-> 0]

\* Link with the push on the command's side left out.
LinkOneWay(entries, respIdx, cmdIdx) ==
  [entries EXCEPT
     ![respIdx + 1].relatedIds = Append(@, EntryAt(entries, cmdIdx).id)]

\* relatedIds.push on both entries (lines 53-57 and 74-78).
Link(entries, respIdx, cmdIdx) ==
  [entries EXCEPT
     ![respIdx + 1].relatedIds = Append(@, EntryAt(entries, cmdIdx).id),
     ![cmdIdx + 1].relatedIds = Append(@, EntryAt(entries, respIdx).id)]

\* The two branch conditions of pass 1 (lines 44 and 62).
IsIdBased(entry) == entry.commandId # Undef /\ GreaterThanZero(entry.commandId)
IsStackBased(entry) ==
  ~IsIdBased(entry)
  /\ (entry.logType = "WebDriver" \/ (entry.commandId = Undef /\ entry.isCommand))

\* LinkById with the pending mapping left in place.
LinkByIdKeepPending(st, idx) ==
  LET entry == EntryAt(st.entries, idx)
  IN [st EXCEPT !.entries = Link(@, idx, st.pendingCommands[entry.commandId])]

\* A response with a positive id whose command is pending (lines 49-60).
LinkById(st, idx) ==
  LET entry == EntryAt(st.entries, idx)
  IN [st EXCEPT !.entries = Link(@, idx, st.pendingCommands[entry.commandId]),
                !.pendingCommands = MapDelete(@, entry.commandId)]

\* PopAndLink taking the oldest command of the stack instead of the newest.
PopAndLinkOldest(st, idx) ==
  LET cmdIndex == st.stack[1]
      linked == Link(st.entries, idx, cmdIndex)
  IN [st EXCEPT !.entries = [linked EXCEPT ![idx + 1].commandId =
                                EntryAt(st.entries, cmdIndex).commandId],
                !.stack = SubSeq(@, 2, Len(@))]

\* PopAndLink that also copies the command's logType to the response.
PopAndLinkCopyLogType(st, idx) ==
  LET cmdIndex == st.stack[Len(st.stack)]
      linked == Link(st.entries, idx, cmdIndex)
  IN [st EXCEPT !.entries = [linked EXCEPT ![idx + 1].commandId =
                                EntryAt(st.entries, cmdIndex).commandId,
                              ![idx + 1].logType =
                                EntryAt(st.entries, cmdIndex).logType],
                !.stack = SubSeq(@, 1, Len(@) - 1)]

\* PopAndLink that leaves the command on the stack.
PopAndLinkPeek(st, idx) ==
  LET cmdIndex == st.stack[Len(st.stack)]
      linked == Link(st.entries, idx, cmdIndex)
  IN [st EXCEPT !.entries = [linked EXCEPT ![idx + 1].commandId =
                                EntryAt(st.entries, cmdIndex).commandId]]

\* A stack-based response with a non-empty stack (lines 68-79).
PopAndLink(st, idx) ==
  LET cmdIndex == st.stack[Len(st.stack)]
      linked == Link(st.entries, idx, cmdIndex)
  IN [st EXCEPT !.entries = [linked EXCEPT ![idx + 1].commandId =
                                EntryAt(st.entries, cmdIndex).commandId],
                !.stack = SubSeq(@, 1, Len(@) - 1)]

\* CorrelateEntry with newSyntheticId returning the counter without
\* decrementing it.
CorrelateEntrySameId(st, idx) ==
  LET entry == EntryAt(st.entries, idx)
  IN IF IsIdBased(entry) THEN
       IF entry.isCommand THEN
         [st EXCEPT !.pendingCommands = MapSet(@, entry.commandId, idx)]
       ELSE IF entry.isResponse /\ entry.commandId \in DOMAIN st.pendingCommands THEN
         LinkById(st, idx)
       ELSE st
     ELSE IF IsStackBased(entry) THEN
       IF entry.isCommand THEN
         [st EXCEPT !.entries[idx + 1].commandId = Num(st.syntheticIdCounter),
                    !.stack = Append(@, idx)]
       ELSE IF entry.isResponse /\ Len(st.stack) > 0 THEN
         PopAndLink(st, idx)
       ELSE st
     ELSE st

\* One iteration of the first loop, on the state
\* [entries, pendingCommands, stack, syntheticIdCounter].
CorrelateEntry(st, idx) ==
  LET entry == EntryAt(st.entries, idx)
  IN IF IsIdBased(entry) THEN
       IF entry.isCommand THEN
         [st EXCEPT !.pendingCommands = MapSet(@, entry.commandId, idx)]
       ELSE IF entry.isResponse /\ entry.commandId \in DOMAIN st.pendingCommands THEN
         LinkById(st, idx)
       ELSE st
     ELSE IF IsStackBased(entry) THEN
       IF entry.isCommand THEN
         [st EXCEPT !.entries[idx + 1].commandId = Num(st.syntheticIdCounter),
                    !.syntheticIdCounter = @ - 1,
                    !.stack = Append(@, idx)]
       ELSE IF entry.isResponse /\ Len(st.stack) > 0 THEN
         PopAndLink(st, idx)
       ELSE st
     ELSE st

\* The loop of getFreeLane.
RECURSIVE FreeLaneFrom(_, _)
FreeLaneFrom(occupied, lane) ==
  IF lane \in occupied THEN FreeLaneFrom(occupied, lane + 1) ELSE lane
\* getFreeLane returning the lane above every occupied one.
getFreeLaneAboveAll(occupied) ==
  IF occupied = {} THEN 0
  ELSE (CHOOSE x \in occupied : \A y \in occupied : x >= y) + 1

\* getFreeLane with the search started at lane 1.
getFreeLaneFromOne(occupied) == FreeLaneFrom(occupied, 1)

\* getFreeLane: `let lane = 0; while (occupiedLanes.has(lane)) lane++`.
getFreeLane(occupied) == FreeLaneFrom(occupied, 0)

\* SortedLanes with the comparison reversed.
RECURSIVE SortedLanesDescending(_)
SortedLanesDescending(lanes) ==
  IF lanes = {} THEN <<>>
  ELSE LET most == CHOOSE x \in lanes : \A y \in lanes : x >= y
       IN <<most>> \o SortedLanesDescending(lanes \ {most})

\* Array.from(occupiedLanes).sort((a, b) => a - b)
RECURSIVE SortedLanes(_)
SortedLanes(lanes) ==
  IF lanes = {} THEN <<>>
  ELSE LET least == CHOOSE x \in lanes : \A y \in lanes : x <= y
       IN <<least>> \o SortedLanes(lanes \ {least})

\* The snapshot taken after the cleanup: the lane that closes at this row is
\* no longer listed.
SnapshotAfterCleanup(occupied, laneToCommand, laneToEntryIndex, startLane, endLane) ==
  [set |-> TRUE,
   activeLanes |-> SortedLanes(occupied \ {endLane}),
   laneDetails |->
     [l \in {x \in occupied \ {endLane} :
               x \in DOMAIN laneToCommand /\ laneToCommand[x] # Undef}
        |-> laneToCommand[l]],
   laneEntryIndices |->
     [l \in {x \in occupied \ {endLane} : x \in DOMAIN laneToEntryIndex}
        |-> laneToEntryIndex[l]],
   startLane |-> startLane,
   endLane |-> endLane]

\* The snapshot with activeLanes in descending order.
SnapshotDescending(occupied, laneToCommand, laneToEntryIndex, startLane, endLane) ==
  [set |-> TRUE,
   activeLanes |-> SortedLanesDescending(occupied),
   laneDetails |->
     [l \in {x \in occupied : x \in DOMAIN laneToCommand /\ laneToCommand[x] # Undef}
        |-> laneToCommand[l]],
   laneEntryIndices |->
     [l \in {x \in occupied : x \in DOMAIN laneToEntryIndex} |-> laneToEntryIndex[l]],
   startLane |-> startLane,
   endLane |-> endLane]

\* The snapshot stored in entry.laneConfig (lines 125-146).
Snapshot(occupied, laneToCommand, laneToEntryIndex, startLane, endLane) ==
  [set |-> TRUE,
   activeLanes |-> SortedLanes(occupied),
   laneDetails |->
     [l \in {x \in occupied : x \in DOMAIN laneToCommand /\ laneToCommand[x] # Undef}
        |-> laneToCommand[l]],
   laneEntryIndices |->
     [l \in {x \in occupied : x \in DOMAIN laneToEntryIndex} |-> laneToEntryIndex[l]],
   startLane |-> startLane,
   endLane |-> endLane]

\* Cleanup with the lane left occupied.
CleanupNothing(st, endLane, primaryRelatedId) == st

\* Cleanup that frees every occupied lane, not only the one that closes.
CleanupAllLanes(st, endLane, primaryRelatedId) ==
  [st EXCEPT !.commandToLane = MapDelete(@, primaryRelatedId),
             !.laneToCommand = EmptyMap,
             !.laneToEntryIndex = EmptyMap,
             !.occupiedLanes = {}]

\* Cleanup that frees the lane and leaves the three maps as they are.
CleanupKeepMaps(st, endLane, primaryRelatedId) ==
  [st EXCEPT !.occupiedLanes = @ \ {endLane}]

\* "Cleanup after row processing" (lines 149-154).
Cleanup(st, endLane, primaryRelatedId) ==
  [st EXCEPT !.commandToLane = MapDelete(@, primaryRelatedId),
             !.laneToCommand = MapDelete(@, endLane),
             !.laneToEntryIndex = MapDelete(@, endLane),
             !.occupiedLanes = @ \ {endLane}]

\* OpensLane without the test for a related id.
OpensLaneUncorrelated(entry) == entry.isCommand /\ entry.commandId # Undef

\* The condition under which a row starts a lane (line 107).
OpensLane(entry) ==
  entry.isCommand /\ Len(entry.relatedIds) > 0 /\ entry.commandId # Undef

\* One iteration of the second loop, on the state
\* [entries, commandToLane, laneToCommand, laneToEntryIndex, occupiedLanes].
AllocateLane(st, idx) ==
  LET entry == EntryAt(st.entries, idx)
      hasPrimary == Len(entry.relatedIds) > 0
      primaryRelatedId == IF hasPrimary THEN entry.relatedIds[1] ELSE NoLane
      isStart == OpensLane(entry)
      isEnd == ~isStart /\ entry.isResponse /\ hasPrimary
               /\ primaryRelatedId \in DOMAIN st.commandToLane
      lane == getFreeLane(st.occupiedLanes)
      currentStartLane == IF isStart THEN lane ELSE NoLane
      currentEndLane == IF isEnd THEN st.commandToLane[primaryRelatedId] ELSE NoLane
      occ1 == IF isStart THEN st.occupiedLanes \cup {lane} ELSE st.occupiedLanes
      c2l1 == IF isStart THEN MapSet(st.commandToLane, entry.id, lane) ELSE st.commandToLane
      l2c1 == IF isStart THEN MapSet(st.laneToCommand, lane, entry.commandId)
              ELSE st.laneToCommand
      l2e1 == IF isStart THEN MapSet(st.laneToEntryIndex, lane, idx)
              ELSE st.laneToEntryIndex
      snap == Snapshot(occ1, l2c1, l2e1, currentStartLane, currentEndLane)
      withConfig == [st.entries EXCEPT ![idx + 1].laneConfig = snap]
      row == [entries |-> withConfig, commandToLane |-> c2l1, laneToCommand |-> l2c1,
              laneToEntryIndex |-> l2e1, occupiedLanes |-> occ1]
  IN IF currentEndLane # NoLane
       THEN Cleanup(row, currentEndLane, primaryRelatedId)
       ELSE row

\* ------------------------------------------------------------ input texts
RECURSIVE SeqsUpTo(_, _)
\* All sequences over S of length at most n.
SeqsUpTo(S, n) ==
  IF n = 0 THEN {<<>>}
  ELSE LET shorter == SeqsUpTo(S, n - 1)
       IN shorter \cup {Append(q, x) : q \in {r \in shorter : Len(r) = n - 1}, x \in S}

ChromeDriverLines ==
  {Line("ts", "DTCommand", Num(1), BadJson),
   Line("ts", "DTResponse", Num(1), BadJson),
   Line("ts", "DTCommand", Undef, BadJson),
   Line("ts", "WDCommand", Undef, BadJson),
   Line("ts", "WDResponse", Undef, BadJson),
   TextLine}

PuppeteerLines ==
  {Line("send", "full", Undef, JsonObject(Str(1), Num(1), Undef, Undef)),
   Line("recv", "full", Undef, JsonObject(Undef, Num(1), Obj, Undef)),
   Line("send", "full", Undef, BadJson),
   Line("recv", "open", Undef, BadJson),
   Line("recvc", "json", Undef, JsonObject(Undef, Num(1), Obj, Undef)),
   Line("recvc", "close", Undef, BadJson)}

WPTLines ==
  {Line("wpt", "", Undef, JsonObject(Str(1), Num(1), Undef, Undef)),
   Line("wpt", "", Undef, JsonObject(Undef, Num(1), Obj, Undef)),
   Line("wpt", "", Undef, JsonObject(Str(1), Num(1), Obj, Undef)),
   Line("wpt", "", Undef, BadJson),
   Line("wpt", "", Undef, JsonScalar(Null)),
   TextLine}

ProtocolMonitorLines ==
  {Line("aopen", "", Undef, BadJson),
   Line("aclose", "", Undef, BadJson),
   Line("arec", "", Undef, JsonObject(Str(1), Num(1), Obj, Undef)),
   Line("arec", "", Undef, JsonObject(Str(1), Num(0), Obj, Undef)),
   Line("arec", "", Undef, JsonObject(Str(1), Undef, Undef, Undef)),
   Line("arec", "", Undef, JsonScalar(Null))}

LinesOf(dialect) ==
  CASE dialect = "ChromeDriver" -> ChromeDriverLines
    [] dialect = "Puppeteer" -> PuppeteerLines
    [] dialect = "WPT" -> WPTLines
    [] OTHER -> ProtocolMonitorLines

Contents ==
  SeqsUpTo(ChromeDriverLines, MaxLines) \cup SeqsUpTo(PuppeteerLines, MaxLines)
  \cup SeqsUpTo(WPTLines, MaxLines) \cup SeqsUpTo(ProtocolMonitorLines, MaxLines)

\* Texts for the format detector: a head line, filler lines that carry no
\* marker, then one line with a marker at, or just past, the end of the window
\* createParser scans.
RECURSIVE Filler(_)
Filler(n) == IF n = 0 THEN <<>> ELSE <<TextLine>> \o Filler(n - 1)

FactoryHeads ==
  {<<>>, <<BlankLine>>, <<TextLine>>,
   <<Line("aopen", "", Undef, BadJson)>>,
   <<BlankLine, Line("aopen", "", Undef, BadJson)>>,
   <<Line("anum", "", Undef, BadJson)>>,
   <<Line("ts", "Start", Undef, BadJson)>>,
   <<Line("ts", "Other", Undef, JsonObject(Str(1), Undef, Undef, Undef))>>}

FactoryMarkers ==
  {Line("send", "full", Undef, BadJson),
   Line("send", "full", Undef, JsonObject(Str(1), Num(1), Undef, Undef)),
   Line("recvc", "close", Undef, BadJson),
   Line("wpt", "", Undef, BadJson),
   Line("wpt", "", Undef, JsonObject(Str(1), Num(1), Undef, Undef)),
   Line("ts", "DTCommand", Num(1), BadJson),
   Line("arec", "", Undef, JsonObject(Str(1), Undef, Undef, Undef)),
   TextLine}

FactoryFillers ==
  {0, HeuristicLines - 2, HeuristicLines - 1, HeuristicLines}

FactoryContents ==
  {h \o Filler(n) \o <<mk>> : h \in FactoryHeads, n \in FactoryFillers, mk \in FactoryMarkers}

\* ---------------------------------------------------------- state machine
VARIABLES
  content,            \* the text handed to createParser and parse
  parser,             \* the dialect parser in use ("none" before selection)
  pc,                 \* "start", "parse", "records", "pass1", "pass2", "done", "threw"
  i,                  \* the loop variable of the loop pc names
  currentEntry,       \* the block being accumulated (ChromeDriver, Puppeteer)
  entryCounter,
  rawEntries,         \* the parsed JSON array (ProtocolMonitor)
  entries,
  pendingCommands, stack, syntheticIdCounter,
  commandToLane, laneToCommand, laneToEntryIndex, occupiedLanes,
  parsed,             \* entries as the parser built them, before postProcess
  run,                \* number of postProcess calls started on entries
  firstRun,           \* entries as the first postProcess call returned them
  \* The page (App, DropZone, LogViewer); constant in the specifications
  \* that run a parser alone.
  disk,               \* the files the user can drop
  reading,            \* files with a FileReader that has not called onload yet
  timers,             \* files of the pending setTimeout callbacks, oldest first
  timerFile,          \* name of the file whose setTimeout callback is running ("" if none)
  isParsing, fileName, logs, filterText,    \* state of App
  stickyIndices,      \* state of LogViewer
  startIndex,         \* startIndex of the last range given to handleRangeChanged
  logsFile            \* name of the file whose content produced logs ("" if none)

parseVars == <<i, currentEntry, entryCounter, rawEntries>>
pass1Vars == <<pendingCommands, stack, syntheticIdCounter>>
pass2Vars == <<commandToLane, laneToCommand, laneToEntryIndex, occupiedLanes>>
appVars ==
  <<disk, reading, timers, timerFile, isParsing, fileName, logs, filterText,
    stickyIndices, startIndex, logsFile>>
vars ==
  <<content, parser, pc, i, currentEntry, entryCounter, rawEntries, entries,
    pendingCommands, stack, syntheticIdCounter,
    commandToLane, laneToCommand, laneToEntryIndex, occupiedLanes, parsed, run,
    firstRun, appVars>>

\* The page before a file is dropped (App.tsx:25-29, part_003:42).
InitApp ==
  /\ reading = {}
  /\ timers = <<>>
  /\ timerFile = ""
  /\ isParsing = FALSE
  /\ fileName = ""
  /\ logs = <<>>
  /\ filterText = ""
  /\ stickyIndices = <<>>
  /\ startIndex = -1
  /\ logsFile = ""

\* The locals of createParser, parse and postProcess before the call.
InitLocals ==
  /\ parser = "none"
  /\ i = 0
  /\ currentEntry = NoCurrent
  /\ entryCounter = 0
  /\ rawEntries = <<>>
  /\ entries = <<>>
  /\ pendingCommands = EmptyMap
  /\ stack = <<>>
  /\ syntheticIdCounter = -1
  /\ commandToLane = EmptyMap
  /\ laneToCommand = EmptyMap
  /\ laneToEntryIndex = EmptyMap
  /\ occupiedLanes = {}
  /\ parsed = <<>>
  /\ run = 0
  /\ firstRun = <<>>

InitState ==
  /\ disk = {}
  /\ InitApp
  /\ pc = "start"
  /\ InitLocals

Init == content \in Contents /\ InitState

\* LogParserFactory.createParser(content)
CreateParser ==
  /\ pc = "start"
  /\ parser' = createParser(content)
  /\ pc' = "parse"
  /\ UNCHANGED <<appVars, content, parseVars, entries, pass1Vars, pass2Vars, parsed, run, firstRun>>

\* new ChromeDriverLog(), new PuppeteerLog(), ... : a parser used directly, on
\* a text made of the lines of its own dialect.
NewParser ==
  /\ pc = "start"
  /\ \E d \in Dialects :
       /\ \A n \in 1..Len(content) : content[n] \in LinesOf(d)
       /\ parser' = d
  /\ pc' = "parse"
  /\ UNCHANGED <<appVars, content, parseVars, entries, pass1Vars, pass2Vars, parsed, run, firstRun>>

\* The entry of postProcess(entries): its locals are fresh.
EnterPostProcess ==
  /\ pc' = "pass1"
  /\ i' = 0
  /\ pendingCommands' = EmptyMap
  /\ stack' = <<>>
  /\ syntheticIdCounter' = -1
  /\ commandToLane' = EmptyMap
  /\ laneToCommand' = EmptyMap
  /\ laneToEntryIndex' = EmptyMap
  /\ occupiedLanes' = {}
  /\ run' = run + 1

\* ChromeDriverParseLine that also starts an entry at a non-matching line
\* when no entry is open.
ChromeDriverParseLineNoContinuation ==
  /\ pc = "parse" /\ parser = "ChromeDriver" /\ i < Len(content)
  /\ LET line == content[i + 1]
     IN IF MatchesTimestamp(line) \/ ~IsCurrent(currentEntry) THEN
          /\ entries' = IF IsCurrent(currentEntry)
                          THEN Append(entries, ChromeDriverFinalize(currentEntry, entryCounter))
                          ELSE entries
          /\ entryCounter' = IF IsCurrent(currentEntry) THEN entryCounter + 1 ELSE entryCounter
          /\ currentEntry' = [lineNumber |-> i + 1, rawLines |-> <<line>>]
        ELSE
          /\ currentEntry' = IF IsCurrent(currentEntry)
                               THEN [currentEntry EXCEPT !.rawLines = Append(@, line)]
                               ELSE currentEntry
          /\ UNCHANGED <<entries, entryCounter>>
  /\ i' = i + 1
  /\ UNCHANGED <<appVars, content, parser, pc, rawEntries, pass1Vars, pass2Vars, parsed, run, firstRun>>

\* ChromeDriverLog.parse, one iteration of the loop over the lines.
ChromeDriverParseLine ==
  /\ pc = "parse" /\ parser = "ChromeDriver" /\ i < Len(content)
  /\ LET line == content[i + 1]
     IN IF MatchesTimestamp(line) THEN
          /\ entries' = IF IsCurrent(currentEntry)
                          THEN Append(entries, ChromeDriverFinalize(currentEntry, entryCounter))
                          ELSE entries
          /\ entryCounter' = IF IsCurrent(currentEntry) THEN entryCounter + 1 ELSE entryCounter
          /\ currentEntry' = [lineNumber |-> i + 1, rawLines |-> <<line>>]
        ELSE
          /\ currentEntry' = IF IsCurrent(currentEntry)
                               THEN [currentEntry EXCEPT !.rawLines = Append(@, line)]
                               ELSE currentEntry
          /\ UNCHANGED <<entries, entryCounter>>
  /\ i' = i + 1
  /\ UNCHANGED <<appVars, content, parser, pc, rawEntries, pass1Vars, pass2Vars, parsed, run, firstRun>>

\* ChromeDriverLog.parse after the loop: the last entry, then postProcess.
ChromeDriverParseEnd ==
  /\ pc = "parse" /\ parser = "ChromeDriver" /\ i = Len(content)
  /\ entries' = IF IsCurrent(currentEntry)
                  THEN Append(entries, ChromeDriverFinalize(currentEntry, entryCounter))
                  ELSE entries
  /\ entryCounter' = IF IsCurrent(currentEntry) THEN entryCounter + 1 ELSE entryCounter
  /\ currentEntry' = NoCurrent
  /\ parsed' = entries'
  /\ EnterPostProcess
  /\ UNCHANGED <<appVars, content, parser, rawEntries, firstRun>>

\* PuppeteerLog.parse, one iteration of the loop over the lines.
PuppeteerParseLine ==
  /\ pc = "parse" /\ parser = "Puppeteer" /\ i < Len(content)
  /\ LET line == content[i + 1]
     IN IF SendMatch(line) \/ RecvMatch(line) THEN
          /\ entries' = IF IsCurrent(currentEntry)
                          THEN PuppeteerFinalize(entries, currentEntry, entryCounter)
                          ELSE entries
          /\ entryCounter' = IF IsCurrent(currentEntry) THEN entryCounter + 1 ELSE entryCounter
          /\ currentEntry' = [lineNumber |-> i + 1, rawLines |-> <<line>>]
        ELSE
          /\ currentEntry' = IF IsCurrent(currentEntry)
                               THEN [currentEntry EXCEPT !.rawLines = Append(@, line)]
                               ELSE currentEntry
          /\ UNCHANGED <<entries, entryCounter>>
  /\ i' = i + 1
  /\ UNCHANGED <<appVars, content, parser, pc, rawEntries, pass1Vars, pass2Vars, parsed, run, firstRun>>

\* PuppeteerLog.parse after the loop.
PuppeteerParseEnd ==
  /\ pc = "parse" /\ parser = "Puppeteer" /\ i = Len(content)
  /\ entries' = IF IsCurrent(currentEntry)
                  THEN PuppeteerFinalize(entries, currentEntry, entryCounter)
                  ELSE entries
  /\ entryCounter' = IF IsCurrent(currentEntry) THEN entryCounter + 1 ELSE entryCounter
  /\ currentEntry' = NoCurrent
  /\ parsed' = entries'
  /\ EnterPostProcess
  /\ UNCHANGED <<appVars, content, parser, rawEntries, firstRun>>

\* WPTLog.parse, one iteration of the loop over the lines.
WPTParseLine ==
  /\ pc = "parse" /\ parser = "WPT" /\ i < Len(content)
  /\ LET line == content[i + 1]
     IN IF HasProtocolPrefix(line) /\ ~WPTThrows(line) THEN
          /\ entries' = Append(entries, WPTEntry(line, entryCounter, i + 1))
          /\ entryCounter' = entryCounter + 1
        ELSE UNCHANGED <<entries, entryCounter>>
  /\ i' = i + 1
  /\ UNCHANGED <<appVars, content, parser, pc, currentEntry, rawEntries, pass1Vars, pass2Vars, parsed, run, firstRun>>

\* WPTLog.parse after the loop.
WPTParseEnd ==
  /\ pc = "parse" /\ parser = "WPT" /\ i = Len(content)
  /\ parsed' = entries
  /\ EnterPostProcess
  /\ UNCHANGED <<appVars, content, parser, currentEntry, entryCounter, rawEntries, entries, firstRun>>

\* ProtocolMonitorLog.parse up to the loop: JSON.parse and Array.isArray.
ProtocolMonitorJsonParse ==
  /\ pc = "parse" /\ parser = "ProtocolMonitor"
  /\ LET json == JsonParseContent(content)
     IN IF json.kind = "array"
          THEN rawEntries' = json.elems /\ pc' = "records"
          ELSE rawEntries' = <<>> /\ pc' = "done"
  /\ UNCHANGED <<appVars, content, parser, i, currentEntry, entryCounter, entries, pass1Vars,
                 pass2Vars, parsed, run, firstRun>>

\* ProtocolMonitorLog.parse, one iteration of the loop over the records; the
\* read of raw.id throws a TypeError when the element is null.
ProtocolMonitorRecord ==
  /\ pc = "records" /\ i < Len(rawEntries)
  /\ LET raw == rawEntries[i + 1]
     IN IF ReadThrows(raw) THEN
          /\ pc' = "threw"
          /\ UNCHANGED <<entries, entryCounter>>
        ELSE
          /\ entries' = entries \o ProtocolMonitorEntries(raw, entryCounter)
          /\ entryCounter' = entryCounter + Len(ProtocolMonitorEntries(raw, entryCounter))
          /\ pc' = pc
  /\ i' = i + 1
  /\ UNCHANGED <<appVars, content, parser, currentEntry, rawEntries, pass1Vars, pass2Vars, parsed, run, firstRun>>

\* ProtocolMonitorLog.parse after the loop.
ProtocolMonitorParseEnd ==
  /\ pc = "records" /\ i = Len(rawEntries)
  /\ parsed' = entries
  /\ EnterPostProcess
  /\ UNCHANGED <<appVars, content, parser, currentEntry, entryCounter, rawEntries, entries, firstRun>>

\* postProcess, one iteration of the first loop.
Pass1Step ==
  /\ pc = "pass1" /\ i < Len(entries)
  /\ LET st == CorrelateEntry([entries |-> entries, pendingCommands |-> pendingCommands,
                               stack |-> stack, syntheticIdCounter |-> syntheticIdCounter], i)
     IN /\ entries' = st.entries
        /\ pendingCommands' = st.pendingCommands
        /\ stack' = st.stack
        /\ syntheticIdCounter' = st.syntheticIdCounter
  /\ i' = i + 1
  /\ UNCHANGED <<appVars, content, parser, pc, currentEntry, entryCounter, rawEntries, pass2Vars, parsed, run, firstRun>>

\* postProcess between the loops.
Pass1Done ==
  /\ pc = "pass1" /\ i = Len(entries)
  /\ pc' = "pass2"
  /\ i' = 0
  /\ UNCHANGED <<appVars, content, parser, currentEntry, entryCounter, rawEntries, entries,
                 pass1Vars, pass2Vars, parsed, run, firstRun>>

\* postProcess, one iteration of the second loop.
Pass2Step ==
  /\ pc = "pass2" /\ i < Len(entries)
  /\ LET st == AllocateLane([entries |-> entries, commandToLane |-> commandToLane,
                             laneToCommand |-> laneToCommand,
                             laneToEntryIndex |-> laneToEntryIndex,
                             occupiedLanes |-> occupiedLanes], i)
     IN /\ entries' = st.entries
        /\ commandToLane' = st.commandToLane
        /\ laneToCommand' = st.laneToCommand
        /\ laneToEntryIndex' = st.laneToEntryIndex
        /\ occupiedLanes' = st.occupiedLanes
  /\ i' = i + 1
  /\ UNCHANGED <<appVars, content, parser, pc, currentEntry, entryCounter, rawEntries, pass1Vars,
                 parsed, run, firstRun>>

\* postProcess returns entries.
PostProcessReturn ==
  /\ pc = "pass2" /\ i = Len(entries)
  /\ pc' = "done"
  /\ firstRun' = IF run = 1 THEN entries ELSE firstRun
  /\ UNCHANGED <<appVars, content, parser, i, currentEntry, entryCounter, rawEntries, entries,
                 pass1Vars, pass2Vars, parsed, run>>

\* postProcess called a second time, on the entries the first call returned.
PostProcessAgain ==
  /\ pc = "done" /\ run = 1
  /\ EnterPostProcess
  /\ UNCHANGED <<appVars, content, parser, currentEntry, entryCounter, rawEntries, entries, parsed,
                 firstRun>>

Next ==
  \/ CreateParser
  \/ NewParser
  \/ ChromeDriverParseLine
  \/ ChromeDriverParseEnd
  \/ PuppeteerParseLine
  \/ PuppeteerParseEnd
  \/ WPTParseLine
  \/ WPTParseEnd
  \/ ProtocolMonitorJsonParse
  \/ ProtocolMonitorRecord
  \/ ProtocolMonitorParseEnd
  \/ Pass1Step
  \/ Pass1Done
  \/ Pass2Step
  \/ PostProcessReturn

Spec == Init /\ [][Next]_vars

\* The format detector alone, on texts longer than its window.
InitFactory == content \in FactoryContents /\ InitState
NextFactory == CreateParser
SpecFactory == InitFactory /\ [][NextFactory]_vars

\* The same program with postProcess applied again to its own output.
NextRerun == Next \/ PostProcessAgain
SpecRerun == Init /\ [][NextRerun]_vars

\* ParseAgain with the entry counter kept from the previous call.
ParseAgainKeepCounter ==
  /\ pc = "done" /\ run = 1
  /\ pc' = "parse"
  /\ i' = 0
  /\ entries' = <<>>
  /\ currentEntry' = NoCurrent
  /\ rawEntries' = <<>>
  /\ UNCHANGED <<appVars, content, parser, entryCounter, pass1Vars, pass2Vars, parsed, run, firstRun>>

\* parse(content) called once more, on the same text, after the first call
\* returned (on the same parser object or on another one of the same class:
\* the classes have no fields). The locals of parse are declared anew.
ParseAgain ==
  /\ pc = "done" /\ run = 1
  /\ pc' = "parse"
  /\ i' = 0
  /\ entries' = <<>>
  /\ entryCounter' = 0
  /\ currentEntry' = NoCurrent
  /\ rawEntries' = <<>>
  /\ UNCHANGED <<appVars, content, parser, pass1Vars, pass2Vars, parsed, run, firstRun>>

NextCalls == Next \/ ParseAgain
SpecCalls == Init /\ [][NextCalls]_vars

\* Classification alone: one-line texts of the two dialects that classify by
\* the fields of the payload, with every combination of field values.
ClassifyPayloads ==
  {JsonObject(m, id, r, e) :
     m \in {Undef, Str(1)}, id \in {Undef, Num(0), Num(1)},
     r \in {Undef, Null, Bool(FALSE), Num(0), Str(0), Obj}, e \in {Undef, Obj}}
ClassifyContents ==
  {<<Line("wpt", "", Undef, j)>> : j \in ClassifyPayloads}
  \cup {<<Line(k, "full", Undef, j)>> : k \in {"send", "recv"}, j \in ClassifyPayloads}
InitClassify == content \in ClassifyContents /\ InitState
NextClassify ==
  \/ CreateParser
  \/ PuppeteerParseLine
  \/ PuppeteerParseEnd
  \/ WPTParseLine
  \/ WPTParseEnd
  \/ Pass1Step
  \/ Pass1Done
  \/ Pass2Step
  \/ PostProcessReturn
SpecClassify == InitClassify /\ [][NextClassify]_vars

\* Metadata extraction alone: one-line texts of the three dialects that walk
\* the payload, whose payload nests identifier fields up to three levels.
MetadataValues == {Undef, Str(1), Str(2), Str(0), Num(5)}
MetadataInner ==
  {Node(t, Undef, <<>>) : t \in MetadataValues}
  \cup {Node(Undef, Undef, <<Node(Str(2), Str(1), <<>>)>>)}
MetadataTrees ==
  {Node(t, s, kids) :
     t \in MetadataValues, s \in {Undef, Str(1)}, kids \in SeqsUpTo(MetadataInner, 2)}
MetadataContents ==
  {<<TaggedLine("ts", "DTCommand", Num(1), JsonTree(tree), tag, sid)>> :
     tree \in MetadataTrees, tag \in {Undef, Str(2)}, sid \in {Undef, Str(1)}}
  \cup {<<Line("wpt", "", Undef, JsonTree(tree))>> : tree \in MetadataTrees}
  \cup {<<Line("send", "full", Undef, JsonTree(tree))>> : tree \in MetadataTrees}
InitMetadata == content \in MetadataContents /\ InitState
NextMetadata ==
  \/ CreateParser
  \/ ChromeDriverParseLine
  \/ ChromeDriverParseEnd
  \/ PuppeteerParseLine
  \/ PuppeteerParseEnd
  \/ WPTParseLine
  \/ WPTParseEnd
  \/ Pass1Step
  \/ Pass1Done
  \/ Pass2Step
  \/ PostProcessReturn
SpecMetadata == InitMetadata /\ [][NextMetadata]_vars

\* Stack-based correlation alone: ChromeDriver texts whose entries carry no
\* "(id=N)" marker, DevTools and WebDriver traffic mixed.
IdlessLines ==
  {Line("ts", "DTCommand", Undef, BadJson),
   Line("ts", "DTResponse", Undef, BadJson),
   Line("ts", "WDCommand", Undef, BadJson),
   Line("ts", "WDResponse", Undef, BadJson)}
InitIdless == content \in SeqsUpTo(IdlessLines, MaxLines) /\ InitState
\* createParser, ChromeDriverLog.parse and its postProcess.
NextChromeDriver ==
  \/ CreateParser
  \/ ChromeDriverParseLine
  \/ ChromeDriverParseEnd
  \/ Pass1Step
  \/ Pass1Done
  \/ Pass2Step
  \/ PostProcessReturn
SpecIdless == InitIdless /\ [][NextChromeDriver]_vars

\* Lane allocation alone: longer ChromeDriver texts of DevTools commands and
\* responses with two ids, so that command/response intervals overlap and a
\* lane is freed while a higher one is still occupied.
LaneLines ==
  {Line("ts", "DTCommand", Num(1), BadJson),
   Line("ts", "DTResponse", Num(1), BadJson),
   Line("ts", "DTCommand", Num(2), BadJson),
   Line("ts", "DTResponse", Num(2), BadJson)}
InitLanes == content \in SeqsUpTo(LaneLines, MaxLaneLines) /\ InitState
SpecLanes == InitLanes /\ [][NextChromeDriver]_vars

\* ----------------------------------------------------------------- the page
\* App (src/src/App.tsx), DropZone (part_001) and LogViewer (part_003). The
\* callbacks of the page run one at a time; the callback of setTimeout calls
\* parseLogs, which is modelled by the steps of createParser, parse and
\* postProcess above, and no other callback runs until it has returned.
\* Not modelled: a second drop while reads or timers of an earlier drop are
\* outstanding, the selection, and the "jump to line" form of the filter text.
Idle == timerFile = ""
\* {!isParsing && logs.length === 0 && <DropZone/>} (App.tsx:208)
DropZoneShown == ~isParsing /\ logs = <<>>
\* {!isParsing && logs.length > 0 && <FilterBar/> <LogViewer/>} (App.tsx:214)
LogViewerShown == ~isParsing /\ logs # <<>>

\* The filter texts the user types.
AppQueries == {"", "command", "response", "(id=1)", "(id=2)"}

\* The test of logs.filter (App.tsx:61-66) on an entry of DevTools or
\* WebDriver traffic without payload and tags: the message is the first line
\* after its timestamp and level; the method name contains none of AppQueries.
MatchesQuery(entry, query) ==
  LET l == entry.raw[1]
  IN CASE query = "command" -> l.m \in {"DTCommand", "WDCommand"}
       [] query = "response" -> l.m \in {"DTResponse", "WDResponse"}
       [] query = "(id=1)" -> l.id = Num(1)
       [] query = "(id=2)" -> l.id = Num(2)
       [] OTHER -> FALSE

RECURSIVE FilterLogs(_, _)
\* logs.filter((entry) => ...)
FilterLogs(list, query) ==
  IF list = <<>> THEN <<>>
  ELSE (IF MatchesQuery(Head(list), query) THEN <<Head(list)>> ELSE <<>>)
       \o FilterLogs(Tail(list), query)

\* const filteredLogs = useMemo(...): the list given to LogViewer.
filteredLogs == IF filterText = "" THEN logs ELSE FilterLogs(logs, filterText)

\* Object.values(record): the values in ascending order of the integer keys.
ObjectValues(rec) ==
  LET keys == SortedLanes(DOMAIN rec)
  IN [n \in 1..Len(keys) |-> rec[keys[n]]]

RECURSIVE InsertAscending(_, _)
InsertAscending(x, s) ==
  IF s = <<>> THEN <<x>>
  ELSE IF x <= Head(s) THEN <<x>> \o s
  ELSE <<Head(s)>> \o InsertAscending(x, Tail(s))
RECURSIVE SortAscending(_)
\* indices.sort((a, b) => a - b)
SortAscending(s) ==
  IF s = <<>> THEN <<>> ELSE InsertAscending(Head(s), SortAscending(Tail(s)))

RECURSIVE IndicesBelow(_, _)
\* for (const idx of activeEntryIndices) if (idx < startIndex) indices.push(idx)
IndicesBelow(s, start) ==
  IF s = <<>> THEN <<>>
  ELSE (IF Head(s) < start THEN <<Head(s)>> ELSE <<>>) \o IndicesBelow(Tail(s), start)

\* The value handleRangeChanged gives to setStickyIndices (part_003:138-162).
StickyIndicesFor(list, start) ==
  IF Len(list) = 0 \/ start >= Len(list) THEN <<>>
  ELSE LET topEntry == list[start + 1]
       IN IF ~topEntry.laneConfig.set THEN <<>>
          ELSE SortAscending(
                 IndicesBelow(ObjectValues(topEntry.laneConfig.laneEntryIndices), start))

RECURSIVE EntriesAt(_, _)
\* indices.map((idx) => list[idx]).filter(Boolean)
EntriesAt(list, indices) ==
  IF indices = <<>> THEN <<>>
  ELSE (IF Head(indices) < Len(list) THEN <<list[Head(indices) + 1]>> ELSE <<>>)
       \o EntriesAt(list, Tail(indices))

\* const stickyEntries = stickyIndices.map((idx) => logs[idx]).filter(Boolean)
stickyEntries == EntriesAt(filteredLogs, stickyIndices)

parserVars ==
  <<content, parser, pc, i, currentEntry, entryCounter, rawEntries, entries,
    pendingCommands, stack, syntheticIdCounter,
    commandToLane, laneToCommand, laneToEntryIndex, occupiedLanes, parsed, run,
    firstRun>>

\* The locals of a call of parseLogs that is entered, or that has returned.
FreshLocals ==
  /\ parser' = "none"
  /\ i' = 0
  /\ currentEntry' = NoCurrent
  /\ entryCounter' = 0
  /\ rawEntries' = <<>>
  /\ entries' = <<>>
  /\ pendingCommands' = EmptyMap
  /\ stack' = <<>>
  /\ syntheticIdCounter' = -1
  /\ commandToLane' = EmptyMap
  /\ laneToCommand' = EmptyMap
  /\ laneToEntryIndex' = EmptyMap
  /\ occupiedLanes' = {}
  /\ parsed' = <<>>
  /\ run' = 0
  /\ firstRun' = <<>>

\* DropZone.onDrop: one FileReader per accepted file.
onDrop ==
  /\ Idle /\ DropZoneShown /\ reading = {} /\ timers = <<>>
  /\ \E files \in SUBSET disk : files # {} /\ reading' = files
  /\ UNCHANGED <<parserVars, disk, timers, timerFile, isParsing, fileName, logs,
                 filterText, stickyIndices, startIndex, logsFile>>

\* reader.onload -> App.handleFileLoaded(content, name); LogViewer is
\* unmounted while isParsing is true, which discards its state.
handleFileLoaded ==
  /\ Idle
  /\ \E file \in reading :
       /\ reading' = reading \ {file}
       /\ fileName' = file.name
       /\ timers' = Append(timers, file)
  /\ isParsing' = TRUE
  /\ stickyIndices' = <<>>
  /\ startIndex' = -1
  /\ UNCHANGED <<parserVars, disk, timerFile, logs, filterText, logsFile>>

\* The callback of setTimeout starts: parseLogs(content) is entered. Timers
\* of equal delay fire in the order in which they were set.
DeferredParseStart ==
  /\ Idle /\ timers # <<>>
  /\ timerFile' = Head(timers).name
  /\ timers' = Tail(timers)
  /\ content' = Head(timers).content
  /\ pc' = "start"
  /\ FreshLocals
  /\ UNCHANGED <<disk, reading, isParsing, fileName, logs, filterText,
                 stickyIndices, startIndex, logsFile>>

\* The callback of setTimeout after parseLogs has returned (App.tsx:42-45);
\* the locals of the call are gone.
DeferredParseEnd ==
  /\ ~Idle /\ pc = "done"
  /\ logs' = entries
  /\ logsFile' = timerFile
  /\ filterText' = ""
  /\ isParsing' = FALSE
  /\ timerFile' = ""
  /\ stickyIndices' = IF entries = <<>> THEN <<>> ELSE stickyIndices
  /\ startIndex' = IF entries = <<>> THEN -1 ELSE startIndex
  /\ content' = <<>>
  /\ pc' = "idle"
  /\ FreshLocals
  /\ UNCHANGED <<disk, reading, timers, fileName>>

\* FilterBar.onFilterChange = setFilterText
onFilterChange ==
  /\ Idle /\ LogViewerShown
  /\ \E query \in AppQueries : filterText' = query
  /\ UNCHANGED <<parserVars, disk, reading, timers, timerFile, isParsing, fileName, logs,
                 stickyIndices, startIndex, logsFile>>

\* LogViewer.handleRangeChanged, called by the list with its visible range.
handleRangeChanged ==
  /\ Idle /\ LogViewerShown
  /\ \E start \in 0..(Len(filteredLogs) - 1) :
       /\ startIndex' = start
       /\ stickyIndices' = StickyIndicesFor(filteredLogs, start)
  /\ UNCHANGED <<parserVars, disk, reading, timers, timerFile, isParsing, fileName, logs,
                 filterText, logsFile>>

\* The button "Open Different File" (App.tsx:190-201).
ResetClick ==
  /\ Idle /\ logs # <<>>
  /\ logs' = <<>>
  /\ fileName' = ""
  /\ filterText' = ""
  /\ logsFile' = ""
  /\ stickyIndices' = <<>>
  /\ startIndex' = -1
  /\ UNCHANGED <<parserVars, disk, reading, timers, timerFile, isParsing>>

NextApp ==
  \/ onDrop
  \/ handleFileLoaded
  \/ DeferredParseStart
  \/ CreateParser
  \/ ChromeDriverParseLine
  \/ ChromeDriverParseEnd
  \/ Pass1Step
  \/ Pass1Done
  \/ Pass2Step
  \/ PostProcessReturn
  \/ DeferredParseEnd
  \/ onFilterChange
  \/ handleRangeChanged
  \/ ResetClick

\* The page with no callback running and no file dropped yet.
InitPage ==
  /\ InitApp
  /\ content = <<>>
  /\ pc = "idle"
  /\ InitLocals

\* One file of DevTools traffic with two ids, viewed with and without a filter.
StickyDisks ==
  {{[name |-> "a.log", content |-> c]} :
     c \in SeqsUpTo(LaneLines, MaxStickyLines) \ {<<>>}}
InitSticky == disk \in StickyDisks /\ InitPage
SpecSticky == InitSticky /\ [][NextApp]_vars

\* Two short files that can be dropped together.
DeferredContents ==
  SeqsUpTo({Line("ts", "DTCommand", Num(1), BadJson),
            Line("ts", "DTResponse", Num(1), BadJson)}, MaxDeferredLines)
DeferredDisks ==
  {{[name |-> "a.log", content |-> a], [name |-> "b.log", content |-> b]} :
     a \in DeferredContents, b \in DeferredContents}
InitDeferred == disk \in DeferredDisks /\ InitPage
SpecDeferred == InitDeferred /\ [][NextApp]_vars

\* ================================================================= claims
Rows == 1..Len(entries)
RelatedSet(e) == {e.relatedIds[n] : n \in 1..Len(e.relatedIds)}
\* postProcess has returned from its first call.
ProcessedOnce == pc = "done" /\ run = 1
\* What pass 1 does with an entry depends on isCommand first, isResponse second.
TreatedAsCommand(e) == e.isCommand
TreatedAsResponse(e) == ~e.isCommand /\ e.isResponse

\* C1: the entry at position k of the sequence a parser builds has id k - 1
\* (ids are 0..N-1 in creation order, so no two entries share an id), also
\* when framed blocks or lines are discarded.
C1_IdsAreCreationOrder == \A k \in Rows : entries[k].id = k - 1

\* C2: after one postProcess run on freshly parsed entries relatedIds is
\* symmetric: B.id in A.relatedIds implies A.id in B.relatedIds.
C2_RelatedIdsSymmetric ==
  ProcessedOnce =>
    \A a, b \in Rows :
      entries[b].id \in RelatedSet(entries[a]) => entries[a].id \in RelatedSet(entries[b])

\* C2 witness: a processed log with an ID-based pair and a stack-based pair.
C2_Witness ==
  /\ ProcessedOnce
  /\ \E a, b \in Rows :
       /\ IsIdBased(entries[a]) /\ entries[a].isCommand
       /\ entries[b].id \in RelatedSet(entries[a])
  /\ \E a, b \in Rows :
       /\ entries[a].logType = "WebDriver" /\ entries[a].isCommand
       /\ entries[b].id \in RelatedSet(entries[a])

ActiveSet(k) ==
  {entries[k].laneConfig.activeLanes[n] : n \in 1..Len(entries[k].laneConfig.activeLanes)}
StartLaneAt(k) == entries[k].laneConfig.startLane
EndLaneAt(k) == entries[k].laneConfig.endLane
Lanes == 0..Len(entries)

\* C3 as stated: at every row activeLanes is exactly the set of lanes opened
\* by an earlier command and not closed by a response at or before this row.
C3_ActiveLanesOpenInterval ==
  ProcessedOnce =>
    \A k \in Rows :
      ActiveSet(k) =
        {L \in Lanes : \E c \in 1..(k - 1) :
            StartLaneAt(c) = L /\ ~\E r \in (c + 1)..k : EndLaneAt(r) = L}

\* C3 amended: at every row activeLanes is exactly the set of lanes opened by
\* a command at or before this row and not closed by a response strictly
\* before this row (a lane is listed on its opening and on its closing row).
C3_ActiveLanesClosedInterval ==
  ProcessedOnce =>
    \A k \in Rows :
      ActiveSet(k) =
        {L \in Lanes : \E c \in 1..k :
            StartLaneAt(c) = L /\ ~\E r \in (c + 1)..(k - 1) : EndLaneAt(r) = L}

\* C3 witness: a processed log where some row has two lanes open at once and
\* a lane closed at one row is gone from a later row.
C3_Witness ==
  /\ ProcessedOnce
  /\ \E k \in Rows : Cardinality(ActiveSet(k)) = 2
  /\ \E r, k \in Rows :
       r < k /\ EndLaneAt(r) # NoLane /\ EndLaneAt(r) \notin ActiveSet(k)

\* C4: a second postProcess run on the output of the first leaves every entry
\* with the same relatedIds, commandId and laneConfig.
C4_RerunIdempotent ==
  (pc = "done" /\ run = 2) =>
    \A k \in Rows :
      /\ entries[k].relatedIds = firstRun[k].relatedIds
      /\ entries[k].commandId = firstRun[k].commandId
      /\ entries[k].laneConfig = firstRun[k].laneConfig

\* C4, the commandId part alone: the second run keeps every commandId.
C4_RerunKeepsCommandId ==
  (pc = "done" /\ run = 2) =>
    \A k \in Rows : entries[k].commandId = firstRun[k].commandId

\* C5: a parser selected by createParser never throws out of parse.
C5_ParseNeverThrows == ~(pc = "threw" /\ parser = createParser(content))

\* The decision order C6 states, on the text itself.
C6_Trimmed == SubSeq(content, FirstNonBlank(content), Len(content))
C6_Window == {n \in 1..Len(content) : n <= 50}
C6_Rule1 ==
  /\ FirstNonBlank(content) # 0
  /\ StartsWithBracket(C6_Trimmed[1]) /\ ~BracketThenDigit(C6_Trimmed[1])
  /\ \E n \in 1..Len(content) : ContainsMethodToken(content[n])
C6_Rule2 == \E n \in C6_Window : ContainsSend(content[n]) \/ ContainsRecv(content[n])
C6_Rule3 == \E n \in C6_Window : ContainsProtocolMessage(content[n])
C6_Selected ==
  CASE C6_Rule1 -> "ProtocolMonitor"
    [] ~C6_Rule1 /\ C6_Rule2 -> "Puppeteer"
    [] ~C6_Rule1 /\ ~C6_Rule2 /\ C6_Rule3 -> "WPT"
    [] OTHER -> "ChromeDriver"

Latest(S) == CHOOSE x \in S : \A y \in S : x >= y

\* The commands with positive id n processed before index idx (from 0) that no
\* response with id n has followed since.
C7_Unanswered(idx, n) ==
  {c \in 0..(idx - 1) :
     /\ TreatedAsCommand(EntryAt(entries, c)) /\ IsIdBased(EntryAt(entries, c))
     /\ EntryAt(entries, c).commandId = n
     /\ ~\E r \in (c + 1)..(idx - 1) :
           /\ TreatedAsResponse(EntryAt(entries, r)) /\ IsIdBased(EntryAt(entries, r))
           /\ EntryAt(entries, r).commandId = n}

\* C7: when pass 1 reaches a response with positive commandId N and a command
\* with id N was processed earlier and has not been answered since, the
\* response and that command (the latest one with id N) are linked to each
\* other and the pending mapping for N is removed; a response with id N that
\* arrives when every earlier command with id N has been answered stays
\* unlinked.
C7_IdBasedCorrelation ==
  [][(Pass1Step /\ run = 1 /\ TreatedAsResponse(EntryAt(entries, i))
        /\ IsIdBased(EntryAt(entries, i)))
      => LET resp == EntryAt(entries, i)
             open == C7_Unanswered(i, resp.commandId)
         IN IF open # {}
              THEN /\ EntryAt(entries', i).relatedIds = <<EntryAt(entries, Latest(open)).id>>
                   /\ EntryAt(entries', Latest(open)).relatedIds = <<resp.id>>
                   /\ resp.commandId \notin DOMAIN pendingCommands'
              ELSE /\ EntryAt(entries', i).relatedIds = <<>>
                   /\ entries' = entries]_vars

\* C7 witness: a command with a positive id, its response linked to it, and a
\* further response with the same id left unlinked.
C7_Witness ==
  /\ ProcessedOnce
  /\ \E c, r, q \in Rows :
       /\ c < r /\ r < q
       /\ TreatedAsCommand(entries[c]) /\ IsIdBased(entries[c])
       /\ TreatedAsResponse(entries[r]) /\ entries[r].commandId = entries[c].commandId
       /\ TreatedAsResponse(entries[q]) /\ entries[q].commandId = entries[c].commandId
       /\ entries[r].relatedIds = <<entries[c].id>>
       /\ entries[c].relatedIds = <<entries[r].id>>
       /\ entries[q].relatedIds = <<>>

\* The entries pass 1 put on the stack: commands that were stack-based as parsed.
C8_StackCommand(idx) ==
  TreatedAsCommand(EntryAt(parsed, idx)) /\ IsStackBased(EntryAt(parsed, idx))
\* An id-less WebDriver response.
C8_StackResponse(idx) ==
  /\ TreatedAsResponse(EntryAt(parsed, idx)) /\ ~IsIdBased(EntryAt(parsed, idx))
  /\ EntryAt(parsed, idx).logType = "WebDriver"
\* The stack commands before idx that are still unanswered in the current state.
C8_Unanswered(idx) ==
  {c \in 0..(idx - 1) : C8_StackCommand(c) /\ EntryAt(entries, c).relatedIds = <<>>}

\* C8: stack-based correlation is LIFO: an id-less WebDriver response is
\* linked to the most recently processed id-less command that is still
\* unanswered; for commands A, B followed by two responses the first response
\* is linked to B and the second to A; the commands of the stack have pairwise
\* distinct negative commandIds.
C8_StackIsLifo ==
  /\ [][(Pass1Step /\ run = 1 /\ C8_StackResponse(i))
          => LET open == C8_Unanswered(i)
             IN IF open # {}
                  THEN /\ EntryAt(entries', i).relatedIds
                            = <<EntryAt(entries, Latest(open)).id>>
                       /\ EntryAt(entries', Latest(open)).relatedIds
                            = <<EntryAt(entries, i).id>>
                  ELSE EntryAt(entries', i).relatedIds = <<>>]_vars
  /\ [](ProcessedOnce =>
         /\ \A a \in Rows :
              (a + 3 \in Rows /\ C8_StackCommand(a - 1) /\ C8_StackCommand(a)
                 /\ C8_StackResponse(a + 1) /\ C8_StackResponse(a + 2))
              => /\ entries[a + 2].relatedIds = <<entries[a + 1].id>>
                 /\ entries[a + 3].relatedIds = <<entries[a].id>>
         /\ \A a, b \in Rows :
              (C8_StackCommand(a - 1) /\ C8_StackCommand(b - 1))
              => /\ entries[a].commandId.t = "number" /\ entries[a].commandId.n < 0
                 /\ (a # b => entries[a].commandId # entries[b].commandId))

\* C8 witness: WebDriver commands A, B and two responses, the first linked to
\* B, the second to A.
C8_Witness ==
  /\ ProcessedOnce
  /\ Len(entries) = 4
  /\ \A k \in Rows : entries[k].logType = "WebDriver"
  /\ C8_StackCommand(0) /\ C8_StackCommand(1) /\ C8_StackResponse(2) /\ C8_StackResponse(3)
  /\ entries[3].relatedIds = <<entries[2].id>>
  /\ entries[4].relatedIds = <<entries[1].id>>
  /\ entries[1].commandId # entries[2].commandId

\* Depth of the stack of id-less commands when pass 1 reaches row k, from the
\* parsed flags alone: a stack command adds one, an id-less WebDriver response
\* removes one if there is one.
RECURSIVE C9_StackDepth(_)
C9_StackDepth(k) ==
  IF k <= 1 THEN 0
  ELSE LET before == C9_StackDepth(k - 1)
       IN IF C8_StackCommand(k - 2) THEN before + 1
          ELSE IF C8_StackResponse(k - 2) /\ before > 0 THEN before - 1
          ELSE before

\* A response processed when no counterpart is available.
C9_OrphanResponse(k) ==
  /\ TreatedAsResponse(parsed[k])
  /\ \/ C8_StackResponse(k - 1) /\ C9_StackDepth(k) = 0
     \/ IsIdBased(parsed[k]) /\ C7_Unanswered(k - 1, parsed[k].commandId) = {}
\* A command that is never answered: no response was linked to it, or it has
\* a positive id that no later response carries.
C9_OrphanCommand(k) ==
  /\ TreatedAsCommand(parsed[k])
  /\ \/ \A r \in Rows : entries[k].id \notin RelatedSet(entries[r])
     \/ /\ IsIdBased(parsed[k])
        /\ ~\E r \in (k + 1)..Len(parsed) :
              TreatedAsResponse(parsed[r]) /\ parsed[r].commandId = parsed[k].commandId

\* C9: orphans are not errors: a response processed when no counterpart is
\* available and a command that is never answered stay in the output with
\* their flags, have empty relatedIds and neither startLane nor endLane, and
\* postProcess never throws.
C9_OrphansKept ==
  /\ (pc = "threw" => run = 0)
  /\ ProcessedOnce =>
       /\ Len(entries) = Len(parsed)
       /\ \A k \in Rows :
            /\ entries[k].isCommand = parsed[k].isCommand
            /\ entries[k].isResponse = parsed[k].isResponse
            /\ (C9_OrphanResponse(k) \/ C9_OrphanCommand(k))
               => /\ entries[k].relatedIds = <<>>
                  /\ entries[k].laneConfig.set
                  /\ entries[k].laneConfig.startLane = NoLane
                  /\ entries[k].laneConfig.endLane = NoLane

\* C9 witness: a processed log with an unanswered command that has an id, an
\* id-less response met with an empty stack and a response whose positive id
\* has no pending command.
C9_Witness ==
  /\ ProcessedOnce
  /\ \E k \in Rows : C9_OrphanCommand(k) /\ entries[k].commandId # Undef
  /\ \E k \in Rows : C9_OrphanResponse(k) /\ C8_StackResponse(k - 1)
  /\ \E k \in Rows : C9_OrphanResponse(k) /\ IsIdBased(parsed[k])

\* The flags and commandIds C10 expects for a parsed JSON array.
RECURSIVE C10_Expected(_)
C10_Expected(recs) ==
  IF recs = <<>> THEN <<>>
  ELSE LET raw == Head(recs)
       IN (IF raw.f.id # Undef
             THEN <<[isCommand |-> TRUE, isResponse |-> FALSE, commandId |-> raw.f.id],
                    [isCommand |-> FALSE, isResponse |-> TRUE, commandId |-> raw.f.id]>>
             ELSE <<[isCommand |-> FALSE, isResponse |-> FALSE, commandId |-> Undef]>>)
          \o C10_Expected(Tail(recs))
C10_WithId == {q \in 1..Len(rawEntries) : rawEntries[q].f.id # Undef}
C10_WithoutId == {q \in 1..Len(rawEntries) : rawEntries[q].f.id = Undef}

\* C10: for a JSON array of records the protocol-monitor parser emits, in
\* record order, a command entry then a response entry (both with the
\* record's id as commandId) for each record with an id and one event entry
\* for each record without; the length is 2 * withId + withoutId.
C10_ProtocolMonitorSplit ==
  (parser = "ProtocolMonitor" /\ run >= 1) =>
    /\ Len(parsed) = 2 * Cardinality(C10_WithId) + Cardinality(C10_WithoutId)
    /\ Len(parsed) = Len(C10_Expected(rawEntries))
    /\ \A k \in 1..Len(parsed) :
         /\ parsed[k].isCommand = C10_Expected(rawEntries)[k].isCommand
         /\ parsed[k].isResponse = C10_Expected(rawEntries)[k].isResponse
         /\ parsed[k].commandId = C10_Expected(rawEntries)[k].commandId
         /\ entries[k].isCommand = parsed[k].isCommand
         /\ entries[k].isResponse = parsed[k].isResponse
         /\ entries[k].commandId = parsed[k].commandId

\* C10 witness: a parsed array with a record that has an id (0) and a record
\* without one.
C10_Witness ==
  /\ parser = "ProtocolMonitor" /\ ProcessedOnce
  /\ Len(rawEntries) = 2
  /\ rawEntries[1].f.id = Num(0)
  /\ rawEntries[2].f.id = Undef
  /\ Len(entries) = 3

\* The lines that open a framed entry for the parser in use: a timestamped
\* line, a transcript sentinel that opens a block, a prefixed line.
C11_Frames ==
  {n \in 1..Len(content) :
     CASE parser = "ChromeDriver" -> MatchesTimestamp(content[n])
       [] parser = "Puppeteer" -> SendMatch(content[n]) \/ RecvMatch(content[n])
       [] parser = "WPT" -> HasProtocolPrefix(content[n])
       [] OTHER -> FALSE}
\* The frame at line n embeds a JSON text that JSON.parse rejects (for a
\* transcript block: between its brackets, on the sentinel line itself).
C11_Malformed(n) ==
  /\ ~content[n].j.ok
  /\ parser = "Puppeteer" => content[n].m = "full"

\* C11: in every dialect a framed entry whose embedded JSON fails to parse is
\* still emitted, as an entry at that line with payload absent.
C11_MalformedStillEmitted ==
  (run >= 1 /\ parser \in {"ChromeDriver", "Puppeteer", "WPT"}) =>
    \A n \in C11_Frames :
      C11_Malformed(n) =>
        \E k \in 1..Len(parsed) : parsed[k].lineNumber = n /\ ~parsed[k].payload.ok

\* C11 restricted to the ChromeDriver dialect, where the entry is emitted.
C11_ChromeDriverStillEmitted ==
  (run >= 1 /\ parser = "ChromeDriver") =>
    \A n \in C11_Frames :
      C11_Malformed(n) =>
        \E k \in 1..Len(parsed) : parsed[k].lineNumber = n /\ ~parsed[k].payload.ok

\* The payload of the one-line text SpecClassify starts from.
ClassifiedPayload == content[1].j
HasField(v) == v # Undef

\* C12: Web-Platform classification: the entry is a command iff the payload
\* has both a method and an id, a response iff it has an id and a result or an
\* error, whatever the values of the fields (id 0, result false, 0, null or
\* the empty string included).
C12_WPTClassification ==
  (parser = "WPT" /\ run >= 1 /\ Len(content) = 1) =>
    /\ Len(parsed) = 1
    /\ parsed[1].isCommand
         <=> (HasField(ClassifiedPayload.f.method) /\ HasField(ClassifiedPayload.f.id))
    /\ parsed[1].isResponse
         <=> (HasField(ClassifiedPayload.f.id)
              /\ (HasField(ClassifiedPayload.f.result) \/ HasField(ClassifiedPayload.f.error)))

\* C12 for the values the protocol uses: a positive id, an object as result.
C12_WPTClassificationTruthy ==
  (parser = "WPT" /\ run >= 1 /\ Len(content) = 1
     /\ ClassifiedPayload.f.id \in {Undef, Num(1)}
     /\ ClassifiedPayload.f.result \in {Undef, Obj}) =>
    /\ Len(parsed) = 1
    /\ parsed[1].isCommand
         <=> (HasField(ClassifiedPayload.f.method) /\ HasField(ClassifiedPayload.f.id))
    /\ parsed[1].isResponse
         <=> (HasField(ClassifiedPayload.f.id)
              /\ (HasField(ClassifiedPayload.f.result) \/ HasField(ClassifiedPayload.f.error)))

\* C13: transcript classification: a block is a command iff it is outbound and
\* its payload lacks result and error, a response iff it is inbound and its
\* payload has a result or an error, and an event (both flags false) in every
\* other case, an outbound block with a result or error included.
C13_TranscriptClassification ==
  (parser = "Puppeteer" /\ run >= 1 /\ Len(content) = 1) =>
    /\ Len(parsed) = 1
    /\ parsed[1].isCommand
         <=> (SendMatch(content[1])
              /\ ~HasField(ClassifiedPayload.f.result) /\ ~HasField(ClassifiedPayload.f.error))
    /\ parsed[1].isResponse
         <=> (RecvMatch(content[1])
              /\ (HasField(ClassifiedPayload.f.result) \/ HasField(ClassifiedPayload.f.error)))

\* C13 without the outbound blocks that carry a result or an error.
C13_TranscriptClassificationPlain ==
  (parser = "Puppeteer" /\ run >= 1 /\ Len(content) = 1
     /\ ~(SendMatch(content[1])
          /\ (HasField(ClassifiedPayload.f.result) \/ HasField(ClassifiedPayload.f.error)))) =>
    /\ Len(parsed) = 1
    /\ parsed[1].isCommand
         <=> (SendMatch(content[1])
              /\ ~HasField(ClassifiedPayload.f.result) /\ ~HasField(ClassifiedPayload.f.error))
    /\ parsed[1].isResponse
         <=> (RecvMatch(content[1])
              /\ (HasField(ClassifiedPayload.f.result) \/ HasField(ClassifiedPayload.f.error)))

\* Every value stored under a targetId (sessionId) field of the graph, at any
\* depth, in order of occurrence.
RECURSIVE C14_Values(_, _)
RECURSIVE C14_MemberValues(_, _)
C14_Values(obj, acc) ==
  LET a1 == IF obj.targetId # Undef
              THEN [acc EXCEPT !.targetIds = Append(@, obj.targetId)] ELSE acc
      a2 == IF obj.sessionId # Undef
              THEN [a1 EXCEPT !.sessionIds = Append(@, obj.sessionId)] ELSE a1
  IN C14_MemberValues(obj.kids, a2)
C14_MemberValues(kids, acc) ==
  IF kids = <<>> THEN acc
  ELSE C14_MemberValues(Tail(kids), C14_Values(Head(kids), acc))

\* The lists C14 expects for the one-line text: the values of the message
\* (ChromeDriver) first, then those of the payload, without duplicates.
C14_Expected ==
  LET l == content[1]
      fromMessage ==
        IF parser = "ChromeDriver"
          THEN [targetIds |-> IF l.tag # Undef THEN <<l.tag>> ELSE <<>>,
                sessionIds |-> IF l.sid # Undef THEN <<l.sid>> ELSE <<>>]
          ELSE NoMetadata
      all == C14_Values(l.j.tree, fromMessage)
  IN [targetIds |-> Dedup(all.targetIds), sessionIds |-> Dedup(all.sessionIds)]
C14_Parsed == run >= 1 /\ Len(content) = 1 /\ Len(parsed) = 1
C14_Agrees ==
  /\ parsed[1].targetIds = C14_Expected.targetIds
  /\ parsed[1].sessionIds = C14_Expected.sessionIds
  /\ parser = "ChromeDriver"
       => parsed[1].tags = Dedup(parsed[1].targetIds \o parsed[1].sessionIds)

\* C14: every scalar value stored under a targetId or sessionId field at any
\* depth is in the entry's targetIds or sessionIds, each list is duplicate-free
\* in first-occurrence order and the same in every dialect; the ChromeDriver
\* dialect adds the tag and session marker of the message and tags is the
\* duplicate-free union of both lists.
C14_MetadataExtraction == C14_Parsed => C14_Agrees

\* C14 for identifier values that are non-empty strings.
C14_MetadataOfStrings ==
  (C14_Parsed
     /\ \A n \in 1..Len(C14_Expected.targetIds) :
          C14_Expected.targetIds[n].t = "string" /\ C14_Expected.targetIds[n].n # 0)
  => C14_Agrees

C16_Correlated(k) == run = 1 /\ (pc \in {"pass2", "done"} \/ (pc = "pass1" /\ k <= i))
\* A command with a positive id, a response with a positive id (as parsed).
C16_Command(k) == TreatedAsCommand(parsed[k]) /\ IsIdBased(parsed[k])
C16_Response(k) == TreatedAsResponse(parsed[k]) /\ IsIdBased(parsed[k])
\* Rows a < b are commands with the same positive id and no response with that
\* id lies between them: b is processed while a is still unanswered.
C16_Duplicate(a, b) ==
  /\ a < b /\ C16_Command(a) /\ C16_Command(b)
  /\ parsed[a].commandId = parsed[b].commandId
  /\ ~\E r \in (a + 1)..(b - 1) :
        C16_Response(r) /\ parsed[r].commandId = parsed[a].commandId
\* Row r is the next response with the id of command b, with no further
\* command of that id in between.
C16_NextResponse(b, r) ==
  /\ b < r /\ C16_Response(r) /\ parsed[r].commandId = parsed[b].commandId
  /\ ~\E q \in (b + 1)..(r - 1) :
        (C16_Response(q) \/ C16_Command(q)) /\ parsed[q].commandId = parsed[b].commandId

\* C16: when a second command with positive id N is processed while an earlier
\* command with id N is unanswered, the first command is never linked (its
\* relatedIds stays empty from then on), the next response with id N is linked
\* to the second command only, and postProcess raises no error.
C16_DuplicateLiveId ==
  /\ (pc = "threw" => run = 0)
  /\ run = 1 =>
       \A a, b \in 1..Len(parsed) :
         (C16_Duplicate(a, b) /\ C16_Correlated(b)) =>
           /\ entries[a].relatedIds = <<>>
           /\ \A r \in 1..Len(parsed) :
                (C16_NextResponse(b, r) /\ C16_Correlated(r)) =>
                  /\ entries[r].relatedIds = <<entries[b].id>>
                  /\ entries[b].relatedIds = <<entries[r].id>>

\* C16 witness: two commands with id N, then two responses with id N; the
\* first response is linked to the second command, the first command and the
\* second response are left unlinked.
C16_Witness ==
  /\ ProcessedOnce /\ Len(entries) = 4
  /\ C16_Duplicate(1, 2) /\ C16_NextResponse(2, 3)
  /\ C16_Response(4) /\ parsed[4].commandId = parsed[1].commandId
  /\ entries[1].relatedIds = <<>>
  /\ entries[3].relatedIds = <<entries[2].id>>
  /\ entries[4].relatedIds = <<>>
  /\ entries[1].laneConfig.startLane = NoLane

\* The effect C17 states for the response at index idx (from 0): the top of the
\* stack is popped and the two entries are linked to each other.
C17_PopsAndLinks(idx) ==
  LET top == stack[Len(stack)]
  IN /\ stack' = SubSeq(stack, 1, Len(stack) - 1)
     /\ EntryAt(entries', idx).relatedIds
          = Append(EntryAt(entries, idx).relatedIds, EntryAt(entries, top).id)
     /\ EntryAt(entries', top).relatedIds
          = Append(EntryAt(entries, top).relatedIds, EntryAt(entries, idx).id)

\* C17: every response without a positive commandId that pass 1 processes
\* while the stack of id-less commands is non-empty pops the top of the stack
\* and is linked symmetrically to it, whatever its logType.
C17_IdlessResponsePops ==
  [][(Pass1Step /\ run = 1
        /\ TreatedAsResponse(EntryAt(entries, i)) /\ ~IsIdBased(EntryAt(entries, i))
        /\ Len(stack) > 0)
      => C17_PopsAndLinks(i)]_vars

\* C17 for the responses of the WebDriver layer.
C17_WebDriverResponsePops ==
  [][(Pass1Step /\ run = 1
        /\ TreatedAsResponse(EntryAt(entries, i)) /\ ~IsIdBased(EntryAt(entries, i))
        /\ EntryAt(entries, i).logType = "WebDriver"
        /\ Len(stack) > 0)
      => C17_PopsAndLinks(i)]_vars

\* Number of commands that entered stack-based correlation before index idx
\* (from 0).
C18_StackCommandsBefore(idx) == Cardinality({c \in 0..(idx - 1) : C8_StackCommand(c)})
\* Row k was stack-correlated: a command pushed on the stack, or a response of
\* the stack branch that popped a command.
C18_StackCorrelated(k) ==
  \/ C8_StackCommand(k - 1)
  \/ /\ TreatedAsResponse(parsed[k]) /\ IsStackBased(parsed[k])
     /\ entries[k].relatedIds # <<>>

\* C18: within one postProcess call the k-th command that enters stack-based
\* correlation receives commandId -k (synthesized ids are negative and
\* pairwise distinct); postProcess writes the commandId of an entry only while
\* pass 1 is at that entry, hence at most once; and the commandId an entry had
\* at creation is replaced only if the entry is stack-correlated.
C18_SynthesizedIds ==
  /\ [][(Pass1Step /\ run = 1 /\ C8_StackCommand(i))
          => EntryAt(entries', i).commandId = Num(0 - (C18_StackCommandsBefore(i) + 1))]_vars
  /\ [][(run = 1 /\ run' = 1)
          => \A k \in Rows :
               (k <= Len(entries') /\ entries'[k].commandId # entries[k].commandId)
               => (pc = "pass1" /\ k = i + 1 /\ i' = i + 1
                   /\ entries[k].commandId = parsed[k].commandId)]_vars
  /\ [](ProcessedOnce =>
         /\ \A a, b \in Rows :
              (C8_StackCommand(a - 1) /\ C8_StackCommand(b - 1) /\ a # b)
              => /\ entries[a].commandId.n < 0
                 /\ entries[a].commandId # entries[b].commandId
         /\ \A k \in Rows :
              entries[k].commandId # parsed[k].commandId => C18_StackCorrelated(k))

\* C18 witness: a processed log where two commands received -1 and -2 and a
\* response took over the id of the command it popped, next to an entry that
\* kept its positive id.
C18_Witness ==
  /\ ProcessedOnce
  /\ \E a, b, r \in Rows :
       /\ a < b /\ b < r
       /\ C8_StackCommand(a - 1) /\ entries[a].commandId = Num(-1)
       /\ C8_StackCommand(b - 1) /\ entries[b].commandId = Num(-2)
       /\ C8_StackResponse(r - 1) /\ parsed[r].commandId = Undef
       /\ entries[r].commandId = Num(-2)
  /\ \E k \in Rows : IsIdBased(parsed[k]) /\ entries[k].commandId = parsed[k].commandId

\* Least non-negative integer that is not in a set of lanes.
C19_LeastFree(occupied) ==
  CHOOSE n \in 0..Cardinality(occupied) :
    n \notin occupied /\ \A q \in 0..(n - 1) : q \in occupied
\* The entry at index idx (from 0) is a correlated command.
C19_CorrelatedCommand(idx) ==
  EntryAt(entries, idx).isCommand /\ Len(EntryAt(entries, idx).relatedIds) > 0
\* The entry at index idx (from 0) is the response linked to the command that
\* opened lane L.
C19_Closes(idx, L) ==
  /\ EntryAt(entries, idx).isResponse /\ ~EntryAt(entries, idx).isCommand
  /\ Len(EntryAt(entries, idx).relatedIds) > 0
  /\ L \in DOMAIN laneToEntryIndex
  /\ EntryAt(entries, idx).relatedIds[1] = EntryAt(entries, laneToEntryIndex[L]).id

\* C19: in pass 2 every correlated command gets as startLane the smallest
\* non-negative integer that is not occupied when its row is processed, and
\* that lane is occupied from this row on: it is in the row's snapshot and it
\* stays occupied until the row of the response linked to the command.
C19_LowestFreeLane ==
  /\ [][(Pass2Step /\ run = 1 /\ C19_CorrelatedCommand(i))
          => LET lane == C19_LeastFree(occupiedLanes)
             IN /\ EntryAt(entries', i).laneConfig.startLane = lane
                /\ lane \in occupiedLanes'
                /\ \E n \in 1..Len(EntryAt(entries', i).laneConfig.activeLanes) :
                     EntryAt(entries', i).laneConfig.activeLanes[n] = lane
                /\ laneToEntryIndex'[lane] = i]_vars
  /\ [][(Pass2Step /\ run = 1)
          => \A L \in occupiedLanes : L \notin occupiedLanes' => C19_Closes(i, L)]_vars

\* C19 witness: a correlated command was given lane 0 while lane 1 was still
\* occupied (lane 0 had been freed by an earlier response).
C19_Witness ==
  /\ pc = "pass2" /\ run = 1
  /\ \E k \in Rows :
       /\ k <= i
       /\ entries[k].isCommand /\ entries[k].relatedIds # <<>>
       /\ entries[k].laneConfig.startLane = 0
       /\ entries[k].laneConfig.activeLanes = <<0, 1>>
       /\ \E r \in 1..(k - 1) : entries[r].laneConfig.endLane = 0

\* The lane indices assigned as startLane over the processed sequence.
C20_LanesUsed == {StartLaneAt(k) : k \in {r \in Rows : StartLaneAt(r) # NoLane}}
\* The correlated commands, and the row of the response linked to one.
C20_PairCommands == {c \in Rows : entries[c].isCommand /\ entries[c].relatedIds # <<>>}
C20_ResponseRow(c) == CHOOSE r \in Rows : entries[r].id = entries[c].relatedIds[1]
\* The pairs open at row k: from the command row through the response row.
C20_OpenAt(k) == {c \in C20_PairCommands : c <= k /\ k <= C20_ResponseRow(c)}
C20_MaxOpen ==
  IF Rows = {} THEN 0
  ELSE LET counts == {Cardinality(C20_OpenAt(k)) : k \in Rows}
       IN CHOOSE m \in counts : \A n \in counts : m >= n

\* C20: over a processed sequence the number of distinct lane indices ever
\* assigned as startLane equals the maximum number of correlated
\* command/response pairs open at the same row.
C20_MinimalLaneCount ==
  ProcessedOnce => Cardinality(C20_LanesUsed) = C20_MaxOpen

\* C20 witness: three pairs, at most two of them open at a time, on two lanes
\* (the third pair reuses the lane the first one freed).
C20_Witness ==
  /\ ProcessedOnce
  /\ Cardinality(C20_PairCommands) = 3
  /\ C20_MaxOpen = 2
  /\ C20_LanesUsed = {0, 1}

\* The rows pass 2 of the first postProcess call has already handled.
RowsLaned ==
  IF run # 1 THEN {}
  ELSE IF pc = "pass2" THEN 1..i
  ELSE IF pc = "done" THEN Rows
  ELSE {}
\* Row r is a response that pass 1 linked to a command.
C21_CorrelatedResponse(r) ==
  TreatedAsResponse(entries[r]) /\ entries[r].relatedIds # <<>>
\* The row of the command a correlated response is linked to.
C21_PairedCommand(r) == CHOOSE c \in Rows : entries[c].id = entries[r].relatedIds[1]
\* Row k is a command that pass 1 linked to a response.
C21_CorrelatedCommand(k) == entries[k].isCommand /\ entries[k].relatedIds # <<>>

\* C21: for every correlated response, endLane is the startLane recorded on
\* its paired command; the lane is still listed in activeLanes, laneDetails
\* and laneEntryIndices of the response's own row; it is freed right after
\* that row (it has left occupiedLanes and the lane maps when the row has been
\* handled), so it is absent from the next row's activeLanes unless that next
\* row is a correlated command that reopens it.
C21_LaneClosing ==
  \A r \in RowsLaned :
    C21_CorrelatedResponse(r) =>
      LET c == C21_PairedCommand(r)
          L == EndLaneAt(r)
          cfg == entries[r].laneConfig
      IN /\ c < r
         /\ L # NoLane
         /\ L = StartLaneAt(c)
         /\ L \in ActiveSet(r)
         /\ L \in DOMAIN cfg.laneDetails /\ cfg.laneDetails[L] = entries[c].commandId
         /\ L \in DOMAIN cfg.laneEntryIndices /\ cfg.laneEntryIndices[L] = c - 1
         /\ (pc = "pass2" /\ i = r) =>
              /\ L \notin occupiedLanes
              /\ L \notin DOMAIN laneToCommand
              /\ L \notin DOMAIN laneToEntryIndex
              /\ entries[c].id \notin DOMAIN commandToLane
         /\ (r + 1 \in RowsLaned /\ L \in ActiveSet(r + 1)) =>
              C21_CorrelatedCommand(r + 1) /\ StartLaneAt(r + 1) = L

\* C21 witness: one log where a response closes lane 0 and the very next row, a
\* correlated command, reopens it, and where a later response closes lane 0
\* while lane 1 stays open, so that the next row lists lane 1 only.
C21_Witness ==
  /\ ProcessedOnce
  /\ \E r \in Rows :
       /\ C21_CorrelatedResponse(r) /\ r < Len(entries)
       /\ EndLaneAt(r) = 0 /\ StartLaneAt(r + 1) = 0 /\ C21_CorrelatedCommand(r + 1)
  /\ \E r \in Rows :
       /\ C21_CorrelatedResponse(r) /\ r < Len(entries)
       /\ EndLaneAt(r) = 0 /\ ActiveSet(r) = {0, 1} /\ ActiveSet(r + 1) = {1}

\* The commands at or before row k that opened lane L and whose linked
\* response does not come before row k.
C22_Openers(k, L) ==
  {c \in 1..k :
     /\ entries[c].isCommand /\ StartLaneAt(c) = L
     /\ \E r \in k..Len(entries) : entries[r].id = entries[c].relatedIds[1]}

\* C22: in every row's laneConfig activeLanes is strictly ascending,
\* laneDetails and laneEntryIndices have exactly the lanes of activeLanes as
\* keys, and for each such lane L laneEntryIndices[L] is the index (from 0, not
\* greater than that of the row) of the one command entry whose startLane is L
\* and whose response has not occurred before this row, and laneDetails[L] is
\* that command's commandId.
C22_SnapshotConsistency ==
  \A k \in RowsLaned :
    LET cfg == entries[k].laneConfig
    IN /\ \A n \in 1..(Len(cfg.activeLanes) - 1) : cfg.activeLanes[n] < cfg.activeLanes[n + 1]
       /\ DOMAIN cfg.laneDetails = ActiveSet(k)
       /\ DOMAIN cfg.laneEntryIndices = ActiveSet(k)
       /\ \A L \in ActiveSet(k) :
            /\ cfg.laneEntryIndices[L] <= k - 1
            /\ C22_Openers(k, L) = {cfg.laneEntryIndices[L] + 1}
            /\ cfg.laneDetails[L] = EntryAt(entries, cfg.laneEntryIndices[L]).commandId

\* C22 witness: a row with lanes 0 and 1 open where lane 0 was opened by a
\* later command than lane 1 (lane 0 had been closed and opened again), the
\* two commands carrying different ids.
C22_Witness ==
  /\ ProcessedOnce
  /\ \E k \in Rows :
       LET cfg == entries[k].laneConfig
       IN /\ cfg.activeLanes = <<0, 1>>
          /\ cfg.laneEntryIndices[0] > cfg.laneEntryIndices[1]
          /\ cfg.laneDetails[0] # cfg.laneDetails[1]
          /\ \E r \in 1..(k - 1) : EndLaneAt(r) = 0

\* An entry with the three fields postProcess may write blanked out.
C23_Frame(e) ==
  [e EXCEPT !.relatedIds = <<>>, !.laneConfig = NoLaneConfig, !.commandId = Undef]

\* C23: at every point of a postProcess call, and when it has returned, the
\* sequence has the length and the order the parser gave it and every entry
\* differs from the parsed one in no field other than relatedIds, laneConfig
\* and commandId (so id, isCommand, isResponse, logType, method, payload,
\* lineNumber and the metadata lists are unchanged); commandId differs only on
\* entries that took the stack-based branch of pass 1.
C23_PostProcessFrame ==
  (pc \in {"pass1", "pass2", "done"} /\ run = 1) =>
    /\ Len(entries) = Len(parsed)
    /\ \A k \in Rows :
         /\ C23_Frame(entries[k]) = C23_Frame(parsed[k])
         /\ entries[k].id = parsed[k].id
         /\ entries[k].isCommand = parsed[k].isCommand
         /\ entries[k].isResponse = parsed[k].isResponse
         /\ entries[k].logType = parsed[k].logType
         /\ entries[k].method = parsed[k].method
         /\ entries[k].payload = parsed[k].payload
         /\ entries[k].commandId # parsed[k].commandId => IsStackBased(parsed[k])

\* C23 witness: a returned sequence in which postProcess wrote all three
\* fields: a linked pair with a lane, and a response that received the
\* synthesized id of a command whose logType differs from its own.
C23_Witness ==
  /\ ProcessedOnce
  /\ \E c, r \in Rows :
       /\ c < r
       /\ parsed[c].commandId = Undef /\ entries[c].commandId = Num(-1)
       /\ parsed[r].commandId = Undef /\ entries[r].commandId = Num(-1)
       /\ entries[c].logType # entries[r].logType
       /\ entries[r].relatedIds = <<entries[c].id>>
       /\ entries[c].laneConfig.startLane = 0
       /\ entries[r].laneConfig.endLane = 0

\* Row k and row k + 1 are the command and the response made from one
\* protocol-monitor record, linked to each other, with a lane from k to k + 1.
C24_PairLinked(k) ==
  /\ k + 1 \in Rows
  /\ entries[k + 1].isResponse /\ entries[k + 1].commandId = entries[k].commandId
  /\ entries[k + 1].id \in RelatedSet(entries[k])
  /\ entries[k].id \in RelatedSet(entries[k + 1])
  /\ StartLaneAt(k) # NoLane
  /\ EndLaneAt(k + 1) = StartLaneAt(k)

\* C24: for every protocol-monitor record carrying an id (any id value,
\* including 0), postProcess links the command entry and the response entry
\* made from that record to each other: each one's relatedIds contains the
\* other's id, and the command row opens a lane that the following response
\* row closes.
C24_ProtocolMonitorPairsLinked ==
  (ProcessedOnce /\ parser = "ProtocolMonitor") =>
    \A k \in Rows : entries[k].isCommand => C24_PairLinked(k)

\* C24 restricted to records whose id is greater than 0.
C24_PositiveIdPairsLinked ==
  (ProcessedOnce /\ parser = "ProtocolMonitor") =>
    \A k \in Rows :
      (entries[k].isCommand /\ GreaterThanZero(entries[k].commandId)) => C24_PairLinked(k)

\* The numbers (from 1) of the lines that match the timestamp+level template.
C25_Matching == {n \in 1..Len(content) : MatchesTimestamp(content[n])}
\* The last line of the block that starts at matching line n: the line before
\* the next matching line, or the last line of the text.
C25_BlockEnd(n) ==
  LET later == {q \in C25_Matching : q > n}
  IN IF later = {} THEN Len(content)
     ELSE (CHOOSE q \in later : \A p \in later : q <= p) - 1

\* C25: ChromeDriverLog.parse emits exactly one entry per line that matches
\* the timestamp+level template, in line order; the non-matching lines that
\* follow a matching line are appended to that entry's raw text and those
\* before the first matching line produce nothing; each entry's lineNumber is
\* the number (from 1) of its matching line, so lineNumber is strictly
\* increasing along the sequence.
C25_ChromeDriverFraming ==
  (parser = "ChromeDriver" /\ pc \in {"pass1", "pass2", "done"} /\ run = 1) =>
    /\ Len(entries) = Cardinality(C25_Matching)
    /\ \A k \in Rows :
         LET n == entries[k].lineNumber
         IN /\ n \in C25_Matching
            /\ Cardinality({q \in C25_Matching : q <= n}) = k
            /\ entries[k].raw = SubSeq(content, n, C25_BlockEnd(n))
    /\ \A k \in 1..(Len(entries) - 1) : entries[k].lineNumber < entries[k + 1].lineNumber

\* C25 witness: a text whose first line does not match, with two matching
\* lines after it, the first of them followed by a continuation line.
C25_Witness ==
  /\ parser = "ChromeDriver" /\ ProcessedOnce
  /\ Len(content) = 4
  /\ C25_Matching = {2, 4}
  /\ Len(entries) = 2
  /\ entries[1].lineNumber = 2 /\ Len(entries[1].raw) = 2
  /\ entries[2].lineNumber = 4 /\ Len(entries[2].raw) = 1

\* The rows whose id is the one id in row k's relatedIds.
C26_Partners(k) == {p \in Rows : entries[p].id = entries[k].relatedIds[1]}

\* C26: during and after one postProcess run on fresh entries every entry has
\* at most one id in relatedIds; an entry with one is linked to exactly one
\* other entry, which lists it back; of the two, one is treated as a command
\* and the other as a response, and the command is at a strictly smaller index.
C26_OneToOneInLogOrder ==
  run = 1 =>
    \A k \in Rows :
      /\ Len(entries[k].relatedIds) <= 1
      /\ Len(entries[k].relatedIds) = 1 =>
           /\ Cardinality(C26_Partners(k)) = 1
           /\ \A p \in C26_Partners(k) :
                /\ p # k
                /\ entries[p].relatedIds = <<entries[k].id>>
                /\ \/ TreatedAsCommand(entries[k]) /\ TreatedAsResponse(entries[p]) /\ k < p
                   \/ TreatedAsResponse(entries[k]) /\ TreatedAsCommand(entries[p]) /\ p < k

\* C26 witness: a returned sequence with two linked pairs, the command of one
\* of them carrying both flags (it is treated as a command), and a response
\* that stayed unlinked.
C26_Witness ==
  /\ ProcessedOnce
  /\ \E a, b, c, d \in Rows :
       /\ a < b /\ b < c /\ c < d
       /\ entries[a].isCommand /\ entries[a].isResponse
       /\ entries[b].relatedIds = <<entries[a].id>>
       /\ entries[c].relatedIds = <<>> /\ TreatedAsResponse(entries[c])
       /\ entries[d].relatedIds = <<>>

\* Two correlated pairs, given by the rows of their commands, have a row in
\* common in their ranges [command row, response row].
C27_Overlap(a, b) ==
  a <= C20_ResponseRow(b) /\ b <= C20_ResponseRow(a)

\* C27: two different correlated pairs whose row ranges [command row,
\* response row] have a row in common are never assigned the same lane,
\* whatever the order in which the pairs close.
C27_NoLaneShared ==
  ProcessedOnce =>
    \A a, b \in C20_PairCommands :
      (a # b /\ C27_Overlap(a, b)) =>
        /\ StartLaneAt(a) # NoLane /\ StartLaneAt(b) # NoLane
        /\ StartLaneAt(a) # StartLaneAt(b)

\* C27 witness: three pairs; the second opens after the first and closes
\* before it, on another lane, and the third, which overlaps neither, takes
\* the lane of the first.
C27_Witness ==
  /\ ProcessedOnce
  /\ \E a, b, c \in C20_PairCommands :
       /\ a < b /\ C20_ResponseRow(b) < C20_ResponseRow(a)
       /\ StartLaneAt(a) = 0 /\ StartLaneAt(b) = 1
       /\ C20_ResponseRow(a) < c /\ StartLaneAt(c) = 0

\* The rows after command row c, up to the row before lane L is assigned
\* again (or to the end of the sequence), at which lane L is closed.
C28_Closers(c, L) ==
  {r \in (c + 1)..Len(entries) :
     /\ EndLaneAt(r) = L
     /\ \A n \in (c + 1)..r : StartLaneAt(n) # L}

\* C28: for each command row with startLane L there is exactly one later row
\* with endLane L that closes it before L is assigned again (and no second
\* assignment of L comes before it), and when the last entry has been
\* processed occupiedLanes and the three lane maps are empty.
C28_LanesReleased ==
  /\ ProcessedOnce =>
       \A c \in Rows :
         StartLaneAt(c) # NoLane =>
           /\ Cardinality(C28_Closers(c, StartLaneAt(c))) = 1
           /\ \A n \in (c + 1)..Len(entries) :
                StartLaneAt(n) = StartLaneAt(c) =>
                  \E r \in (c + 1)..(n - 1) : EndLaneAt(r) = StartLaneAt(c)
  /\ (run = 1 /\ (pc = "done" \/ (pc = "pass2" /\ i = Len(entries)))) =>
       /\ occupiedLanes = {}
       /\ DOMAIN commandToLane = {}
       /\ DOMAIN laneToCommand = {}
       /\ DOMAIN laneToEntryIndex = {}

\* C28 witness: a returned sequence in which lane 0 was assigned twice and
\* lane 1 once, each assignment followed by its release, with nothing left
\* occupied.
C28_Witness ==
  /\ ProcessedOnce
  /\ occupiedLanes = {}
  /\ \E a, b, c \in Rows :
       /\ a < c /\ StartLaneAt(a) = 0 /\ StartLaneAt(c) = 0
       /\ StartLaneAt(b) = 1
       /\ \E r \in (c + 1)..Len(entries) : EndLaneAt(r) = 0
       /\ \E r \in (b + 1)..Len(entries) : EndLaneAt(r) = 1

\* The top visible row of the list given to LogViewer.
C29_Top == filteredLogs[startIndex + 1]
\* The indices, in the parsed sequence, of the commands that opened the lanes
\* active at the top visible row and that lie above that row (for the entries
\* of this dialect the id of an entry is its index in the parsed sequence).
C29_OpenersAbove ==
  LET cfg == C29_Top.laneConfig
  IN {idx \in {cfg.laneEntryIndices[L] : L \in DOMAIN cfg.laneEntryIndices} : idx < C29_Top.id}
\* Those commands, in ascending order.
C29_Expected ==
  LET above == SortedLanes(C29_OpenersAbove)
  IN [n \in 1..Len(above) |-> logs[above[n] + 1]]
\* Those of them that are rows of the list given to LogViewer.
C29_ExpectedListed ==
  IF filterText = "" THEN C29_Expected ELSE FilterLogs(C29_Expected, filterText)

\* C29: for any visible range, the rows LogViewer pins after
\* handleRangeChanged are exactly the command entries that opened the lanes
\* active at the top visible row and that lie above that row, in ascending
\* order, also when the list given to LogViewer is a text-filtered
\* subsequence of the parsed entries.
C29_StickyHeadersPinOpeners ==
  [][handleRangeChanged => (stickyEntries' = C29_Expected')]_vars

\* C29 read as: the pinned rows are those opening commands that are rows of the
\* list given to LogViewer (a command the filter hides is not expected).
C29_StickyHeadersPinListedOpeners ==
  [][handleRangeChanged => (stickyEntries' = C29_ExpectedListed')]_vars

\* C29 restricted to the unfiltered list.
C29_StickyHeadersUnfiltered ==
  [][(handleRangeChanged /\ filterText = "") => (stickyEntries' = C29_Expected')]_vars

\* The displayed file name is the name of a dropped file whose content is the
\* content that produced the displayed logs.
C30_NameMatchesLogs ==
  \E shown, source \in disk :
    /\ shown.name = fileName
    /\ source.name = logsFile
    /\ shown.content = source.content

\* C30: under every interleaving of the file-load callbacks of files dropped
\* together and their deferred parse timers, whenever isParsing is false and
\* logs are displayed the displayed file name is the name of the file whose
\* content produced the displayed logs, and isParsing is never false while a
\* deferred parse is still pending (states between two callbacks).
C30_DeferredParsingConsistent ==
  Idle =>
    /\ (~isParsing /\ logs # <<>>) => C30_NameMatchesLogs
    /\ timers # <<>> => isParsing

\* C30 restricted to the page at rest: no read is outstanding, no deferred
\* parse is pending and a file name is displayed.
C30_ConsistentAtRest ==
  (Idle /\ reading = {} /\ timers = <<>> /\ fileName # "" /\ ~isParsing /\ logs # <<>>)
    => C30_NameMatchesLogs

====
